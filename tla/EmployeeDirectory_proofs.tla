----------------------- MODULE EmployeeDirectory_proofs -----------------------
(***************************************************************************)
(* Theorems about EmployeeDirectory, for every staff, any number of calls, *)
(* addresses, departments and rows of a bulk upload.                       *)
(***************************************************************************)
EXTENDS EmployeeDirectory, EmployeeDocuments_proofs, FiniteSetTheorems

Moments == {"naming", "named", "inserted", "validated", "locked", "opened", "done"}

DirectoryTypeOK ==
  /\ email \in [People -> 0..Addresses] /\ place \in [People -> Places]
  /\ contacts \in [People -> SUBSET Calls]
  /\ type \in [Calls -> {"none", "quota", "free"}]
  /\ balance \subseteq People \X Calls /\ task \in [Calls -> Task \cup {NoTask}]
  /\ edited \subseteq Calls

LEMMA InitDirectoryType == Init => DirectoryTypeOK
<1> SUFFICES ASSUME Init PROVE DirectoryTypeOK
  OBVIOUS
<1>1. email \in [People -> 0..Addresses]
  BY DirectoryAssumption DEF Init
<1>2. place \in [People -> Places]
  BY DEF Init, Places
<1>3. task \in [Calls -> Task \cup {NoTask}]
  BY DEF Init
<1> QED
  BY <1>1, <1>2, <1>3 DEF Init, DirectoryTypeOK

(* The records of calls: what they are made of, and what a step makes of one. *)
LEMMA TaskFields ==
  ASSUME NEW k \in Task
  PROVE  /\ k.op \in {"create", "bulk", "type", "update", "deactivate"}
         /\ k.step \in Moments /\ k.row \in 1..MaxRows /\ k.person \in People
         /\ k.email \in 0..Addresses /\ k.change \in Changes
         /\ k.opened \subseteq People \cup Calls /\ k.past \subseteq Calls
  BY DEF Task, Moments

LEMMA NothingChanges == Nothing \in Changes
  BY DEF Nothing, Changes

LEMMA NewPeople ==
  ASSUME NEW c \in Calls, NEW n \in 1..MaxRows
  PROVE  <<c, n>> \in People
  BY DirectoryAssumption

LEMMA TaskMade ==
  ASSUME NEW op \in {"create", "bulk", "type", "update", "deactivate"},
         NEW step \in Moments, NEW e \in People, NEW a \in 0..Addresses,
         NEW change \in Changes, NEW past \in SUBSET Calls
  PROVE  [op |-> op, step |-> step, row |-> 1, person |-> e, email |-> a,
          change |-> change, opened |-> {}, past |-> past] \in Task
<1>1. 1 \in 1..MaxRows
  BY DirectoryAssumption
<1> QED
  BY <1>1 DEF Task, Moments

LEMMA TaskProceeds ==
  ASSUME NEW k \in Task, NEW step \in Moments
  PROVE  [k EXCEPT !.step = step] \in Task
  BY DEF Task, Moments

LEMMA TaskNamed ==
  ASSUME NEW k \in Task, NEW a \in 0..Addresses
  PROVE  [k EXCEPT !.step = "named", !.email = a] \in Task
  BY DEF Task

LEMMA TaskOpens ==
  ASSUME NEW k \in Task, NEW opened \in SUBSET (People \cup Calls)
  PROVE  [k EXCEPT !.step = "opened", !.opened = opened] \in Task
  BY DEF Task

LEMMA TaskEnds ==
  ASSUME NEW k \in Task
  PROVE  [k EXCEPT !.step = "done", !.email = 0, !.change = Nothing, !.opened = {}] \in Task
<1>1. 0 \in 0..Addresses
  BY DirectoryAssumption
<1> QED
  BY <1>1, NothingChanges DEF Task

LEMMA TaskNextRow ==
  ASSUME NEW k \in Task, NEW c \in Calls, k.row < MaxRows
  PROVE  [k EXCEPT !.step = "naming", !.row = @ + 1, !.email = 0,
                   !.person = <<c, k.row + 1>>, !.opened = {}] \in Task
<1>1. 0 \in 0..Addresses /\ k.row + 1 \in 1..MaxRows
  BY DirectoryAssumption, TaskFields
<1>2. <<c, k.row + 1>> \in People
  BY <1>1, NewPeople
<1> DEFINE Following(n, e) == [k EXCEPT !.step = "naming", !.row = n, !.email = 0,
                                        !.person = e, !.opened = {}]
<1>3. \A n \in 1..MaxRows, e \in People : Following(n, e) \in Task
  BY <1>1 DEF Task
<1> QED
  BY <1>1, <1>2, <1>3

(* The record of c becomes k, and no other changes. *)
Becomes(c, k) ==
  /\ k \in Task /\ task'[c] = k
  /\ task' \in [Calls -> Task \cup {NoTask}]
  /\ \A d \in Calls \ {c} : task'[d] = task[d]

LEMMA Replaced ==
  ASSUME DirectoryTypeOK, NEW c \in Calls, NEW k \in Task, task' = [task EXCEPT ![c] = k]
  PROVE  Becomes(c, k)
  BY DEF DirectoryTypeOK, Becomes

LEMMA Proceeded ==
  ASSUME DirectoryTypeOK, NEW c \in Calls, NEW step \in Moments, task[c] # NoTask, Proceeds(c, step)
  PROVE  \E k \in Task : /\ Becomes(c, k) /\ k.step = step /\ k.op = task[c].op
                         /\ k.row = task[c].row /\ k.person = task[c].person
                         /\ k.opened = task[c].opened
<1> DEFINE k == [task[c] EXCEPT !.step = step]
<1>1. task[c] \in Task
  BY DEF DirectoryTypeOK
<1>2. k \in Task
  BY <1>1, TaskProceeds
<1>3. /\ k.step = step /\ k.op = task[c].op /\ k.row = task[c].row /\ k.person = task[c].person
      /\ k.opened = task[c].opened
  BY <1>1 DEF Task
<1>4. task' = [task EXCEPT ![c] = k]
  BY DEF Proceeds
<1> HIDE DEF k
<1> QED
  BY <1>2, <1>3, <1>4, Replaced

LEMMA Opened ==
  ASSUME DirectoryTypeOK, NEW c \in Calls, NEW opened \in SUBSET (People \cup Calls), task[c] # NoTask,
         task' = [task EXCEPT ![c].step = "opened", ![c].opened = opened]
  PROVE  \E k \in Task : /\ Becomes(c, k) /\ k.step = "opened" /\ k.op = task[c].op
                         /\ k.row = task[c].row /\ k.person = task[c].person /\ k.opened = opened
<1> DEFINE k == [task[c] EXCEPT !.step = "opened", !.opened = opened]
<1>1. task[c] \in Task
  BY DEF DirectoryTypeOK
<1>2. k \in Task
  BY <1>1, TaskOpens
<1>3. /\ k.step = "opened" /\ k.op = task[c].op /\ k.row = task[c].row /\ k.person = task[c].person
      /\ k.opened = opened
  BY <1>1 DEF Task
<1>4. task' = [task EXCEPT ![c] = k]
  OBVIOUS
<1> HIDE DEF k
<1> QED
  BY <1>2, <1>3, <1>4, Replaced

LEMMA Closed ==
  ASSUME DirectoryTypeOK, NEW c \in Calls, task[c] # NoTask, Ends(c)
  PROVE  \E k \in Task : /\ Becomes(c, k) /\ k.step = "done" /\ k.op = task[c].op
                         /\ k.row = task[c].row /\ k.person = task[c].person /\ k.opened = {}
<1> DEFINE k == [task[c] EXCEPT !.step = "done", !.email = 0, !.change = Nothing, !.opened = {}]
<1>1. task[c] \in Task
  BY DEF DirectoryTypeOK
<1>2. k \in Task
  BY <1>1, TaskEnds
<1>3. /\ k.step = "done" /\ k.op = task[c].op /\ k.row = task[c].row /\ k.person = task[c].person
      /\ k.opened = {}
  BY <1>1 DEF Task
<1>4. task' = [task EXCEPT ![c] = k]
  BY DEF Ends
<1> HIDE DEF k
<1> QED
  BY <1>2, <1>3, <1>4, Replaced

LEMMA NextRowTaken ==
  ASSUME DirectoryTypeOK, NEW c \in Calls, task[c] # NoTask, NextRow(c)
  PROVE  \E k \in Task : /\ Becomes(c, k) /\ k.op = task[c].op /\ k.opened = {}
                         /\ \/ k.step = "done" /\ k.row = task[c].row /\ k.person = task[c].person
                            \/ /\ k.step = "naming" /\ k.op = "bulk"
                               /\ k.row = task[c].row + 1 /\ k.person = <<c, k.row>>
<1>1. task[c] \in Task
  BY DEF DirectoryTypeOK
<1>2. CASE task[c].op = "bulk" /\ task[c].row < MaxRows
  <2> DEFINE k == [task[c] EXCEPT !.step = "naming", !.row = @ + 1, !.email = 0,
                                  !.person = <<c, task[c].row + 1>>, !.opened = {}]
  <2>1. k \in Task
    BY <1>1, <1>2, TaskNextRow
  <2>2. /\ k.step = "naming" /\ k.op = task[c].op /\ k.row = task[c].row + 1
        /\ k.person = <<c, task[c].row + 1>> /\ k.opened = {}
    BY <1>1 DEF Task
  <2>3. task' = [task EXCEPT ![c] = k]
    BY <1>2 DEF NextRow
  <2> HIDE DEF k
  <2> QED
    BY <1>2, <2>1, <2>2, <2>3, Replaced
<1>3. CASE ~ (task[c].op = "bulk" /\ task[c].row < MaxRows)
  BY <1>3, Closed DEF NextRow
<1> QED BY <1>2, <1>3

LEMMA Begun ==
  ASSUME DirectoryTypeOK, NEW c \in Calls, NEW e \in People, NEW step \in Moments,
         NEW op \in {"create", "bulk", "type", "update", "deactivate"}, Begins(c, op, step, e)
  PROVE  \E k \in Task : /\ Becomes(c, k) /\ k.step = step /\ k.op = op
                         /\ k.row = 1 /\ k.person = e /\ k.opened = {}
<1> DEFINE past == {d \in Calls : Doing(d, "done")}
           k == [op |-> op, step |-> step, row |-> 1, person |-> e, email |-> 0,
                 change |-> Nothing, opened |-> {}, past |-> past]
<1>1. 0 \in 0..Addresses /\ past \in SUBSET Calls
  BY DirectoryAssumption
<1>2. k \in Task
  <2> HIDE DEF past
  <2> QED BY <1>1, TaskMade, NothingChanges
<1>3. k.step = step /\ k.op = op /\ k.row = 1 /\ k.person = e /\ k.opened = {}
  OBVIOUS
<1>4. task' = [task EXCEPT ![c] = k]
  BY DEF Begins
<1> HIDE DEF k
<1> QED
  BY <1>2, <1>3, <1>4, Replaced

LEMMA Created ==
  ASSUME DirectoryTypeOK, NEW c \in Calls, Create(c)
  PROVE  \E k \in Task : /\ Becomes(c, k) /\ k.step = "named" /\ k.op = "create"
                         /\ k.row = 1 /\ k.person = <<c, 1>> /\ k.opened = {}
<1> DEFINE past == {d \in Calls : Doing(d, "done")}
           k(a) == [op |-> "create", step |-> "named", row |-> 1, person |-> <<c, 1>>, email |-> a,
                    change |-> Nothing, opened |-> {}, past |-> past]
<1>1. PICK a \in 1..Addresses : task' = [task EXCEPT ![c] = k(a)]
  BY DEF Create
<1>2. a \in 0..Addresses /\ past \in SUBSET Calls /\ "named" \in Moments /\ <<c, 1>> \in People
  BY DirectoryAssumption, NewPeople DEF Moments
<1>3. k(a) \in Task
  <2> HIDE DEF past
  <2> QED BY <1>2, TaskMade, NothingChanges
<1>4. /\ k(a).step = "named" /\ k(a).op = "create" /\ k(a).row = 1 /\ k(a).person = <<c, 1>>
      /\ k(a).opened = {}
  OBVIOUS
<1> HIDE DEF k
<1> QED
  BY <1>1, <1>3, <1>4, Replaced

LEMMA Updated ==
  ASSUME DirectoryTypeOK, DocumentsTypeOK, NEW c \in Calls, Update(c)
  PROVE  \E k \in Task : /\ Becomes(c, k) /\ k.step = "validated" /\ k.op = "update"
                         /\ k.row = 1 /\ k.person \in employed /\ k.opened = {}
<1> DEFINE past == {d \in Calls : Doing(d, "done")}
           k(e, change) == [op |-> "update", step |-> "validated", row |-> 1, person |-> e,
                            email |-> 0, change |-> change, opened |-> {}, past |-> past]
<1>1. PICK e \in employed, change \in Changes : task' = [task EXCEPT ![c] = k(e, change)]
  BY DEF Update
<1>2. 0 \in 0..Addresses /\ past \in SUBSET Calls /\ "validated" \in Moments /\ e \in People
  BY DirectoryAssumption DEF Moments, DocumentsTypeOK
<1>3. k(e, change) \in Task
  <2> HIDE DEF past
  <2> QED BY <1>2, TaskMade
<1>4. /\ k(e, change).step = "validated" /\ k(e, change).op = "update" /\ k(e, change).row = 1
      /\ k(e, change).person = e /\ k(e, change).opened = {}
  OBVIOUS
<1> HIDE DEF k
<1> QED
  BY <1>1, <1>3, <1>4, Replaced

LEMMA Named ==
  ASSUME DirectoryTypeOK, NEW c \in Calls, Name(c)
  PROVE  \E k \in Task : /\ Becomes(c, k) /\ k.op = task[c].op
                         /\ \/ /\ k.step = "named" /\ k.row = task[c].row
                               /\ k.person = task[c].person /\ k.opened = task[c].opened
                            \/ /\ k.step = "done" /\ k.row = task[c].row
                               /\ k.person = task[c].person /\ k.opened = {}
                            \/ /\ k.step = "naming" /\ k.op = "bulk" /\ k.row = task[c].row + 1
                               /\ k.person = <<c, k.row>> /\ k.opened = {}
<1>1. task[c] # NoTask /\ task[c] \in Task
  BY DEF Name, Doing, DirectoryTypeOK
<1>2. CASE NextRow(c)
  BY <1>1, <1>2, NextRowTaken
<1>3. ASSUME NEW a \in 1..Addresses, task' = [task EXCEPT ![c].step = "named", ![c].email = a]
      PROVE  \E k \in Task : /\ Becomes(c, k) /\ k.op = task[c].op
                             /\ k.step = "named" /\ k.row = task[c].row
                             /\ k.person = task[c].person /\ k.opened = task[c].opened
  <2> DEFINE k == [task[c] EXCEPT !.step = "named", !.email = a]
  <2>1. a \in 0..Addresses
    BY DirectoryAssumption
  <2>2. k \in Task
    BY <1>1, <2>1, TaskNamed
  <2>3. /\ k.step = "named" /\ k.op = task[c].op /\ k.row = task[c].row
        /\ k.person = task[c].person /\ k.opened = task[c].opened
    BY <1>1 DEF Task
  <2>4. task' = [task EXCEPT ![c] = k]
    BY <1>3
  <2> HIDE DEF k
  <2> QED
    BY <2>2, <2>3, <2>4, Replaced
<1>4. NextRow(c) \/ \E a \in 1..Addresses : task' = [task EXCEPT ![c].step = "named", ![c].email = a]
  BY DEF Name
<1> QED
  BY <1>2, <1>3, <1>4
-----------------------------------------------------------------------------
(* What a creation keeps for its transaction are types, what the creation of *)
(* a type keeps are employees.                                               *)
OpenedInv ==
  \A c \in Calls : task[c] # NoTask =>
    /\ task[c].op \in {"create", "bulk"} => task[c].opened \subseteq Calls
    /\ task[c].op = "type" => task[c].opened \subseteq People

Hires(c)   == task[c] # NoTask /\ task[c].op \in {"create", "bulk"} /\ task[c].step # "done"
Edits(c)   == task[c] # NoTask /\ task[c].op \in {"update", "deactivate"}
Editing(c) == Edits(c) /\ task[c].step \in {"locked", "opened"}

(* nobody knows employee e yet *)
Unborn(e) == e \notin employed /\ contacts[e] = {} /\ \A d \in Calls : Edits(d) => task[d].person # e

(* The row lock: one edit of an employee at a time. *)
HolderInv ==
  \A c, d \in Calls : Editing(c) /\ Editing(d) /\ task[c].person = task[d].person => c = d

(* What the holder has deleted is still the whole list. *)
ListInv ==
  \A c \in Calls : Editing(c) /\ task[c].op = "update" /\ task[c].step = "opened" =>
    task[c].opened = contacts[task[c].person]

(* Whom a call has yet to hire has no list, nor an edit. *)
UnbornInv ==
  \A c \in Calls :
    /\ task[c] = NoTask => \A n \in 1..MaxRows : Unborn(<<c, n>>)
    /\ Hires(c) => /\ task[c].person = <<c, task[c].row>>
                   /\ \A n \in 1..MaxRows : n >= task[c].row => Unborn(<<c, n>>)

OneList == \A e \in People : contacts[e] = {} \/ \E c \in Calls : contacts[e] = {c}

ContactsInv == HolderInv /\ ListInv /\ UnbornInv /\ OneList

DirectoryInv == DirectoryTypeOK /\ OpenedInv /\ ContactsInv

LEMMA InitDirectory == Init => DirectoryInv
<1> SUFFICES ASSUME Init PROVE DirectoryInv
  OBVIOUS
<1>1. OpenedInv /\ HolderInv /\ ListInv /\ OneList
  BY DEF Init, OpenedInv, HolderInv, ListInv, OneList, Editing, Edits
<1>2. UnbornInv
  <2>1. employed = Seed
    BY DEF Init, DocumentsInit
  <2>2. \A c \in Calls, n \in 1..MaxRows : <<c, n>> \in People /\ <<c, n>> \notin Seed
    BY DirectoryAssumption
  <2> QED
    BY <2>1, <2>2 DEF Init, UnbornInv, Unborn, Hires, Edits
<1> QED
  BY <1>1, <1>2, InitDirectoryType DEF DirectoryInv, ContactsInv

(* A call goes on, or begins, without touching the staff or a list, and      *)
(* without taking a row lock.                                                *)
LEMMA TaskFrame ==
  ASSUME DirectoryInv, NEW c \in Calls, NEW k \in Task, Becomes(c, k),
         employed' = employed, contacts' = contacts,
         task[c] # NoTask => /\ task[c].op = k.op /\ task[c].row <= k.row
                             /\ task[c].step # "done",
         k.op \in {"update", "deactivate"} =>
           /\ k.step \notin {"locked", "opened"}
           /\ IF task[c] = NoTask THEN k.person \in employed ELSE k.person = task[c].person,
         k.op \in {"create", "bulk"} /\ k.step # "done" => k.person = <<c, k.row>>
  PROVE  ContactsInv'
<1>1. k # NoTask
  BY DirectoryAssumption
<1>2. \A d \in Calls : Editing(d)' => d # c /\ Editing(d) /\ task'[d] = task[d]
  BY <1>1 DEF Editing, Edits, Becomes
<1>3. HolderInv' /\ ListInv'
  BY <1>2 DEF DirectoryInv, ContactsInv, HolderInv, ListInv
<1>4. \A e : Unborn(e) => Unborn(e)'
  BY <1>1 DEF Unborn, Edits, Becomes
<1>5. Hires(c)' => task[c] = NoTask \/ Hires(c)
  BY <1>1 DEF Hires, Becomes
<1>6. \A d \in Calls \ {c} : Hires(d)' <=> Hires(d)
  BY DEF Hires, Becomes
<1>7. Hires(c)' => \A n \in 1..MaxRows : n >= k.row => Unborn(<<c, n>>)
  <2>1. CASE task[c] = NoTask
    BY <2>1 DEF DirectoryInv, ContactsInv, UnbornInv
  <2>2. CASE task[c] # NoTask
    <3>1. task[c].row \in Nat /\ k.row \in Nat
      BY <2>2, TaskFields DEF DirectoryInv, DirectoryTypeOK
    <3> QED
      BY <2>2, <3>1, <1>5 DEF DirectoryInv, ContactsInv, UnbornInv
  <2> QED BY <2>1, <2>2
<1>8. UnbornInv'
  BY <1>1, <1>4, <1>5, <1>6, <1>7 DEF UnbornInv, DirectoryInv, ContactsInv, Becomes, Hires
<1>9. OneList'
  BY DEF DirectoryInv, ContactsInv, OneList
<1> QED
  BY <1>3, <1>8, <1>9 DEF ContactsInv

LEMMA OpenedFrame ==
  ASSUME OpenedInv, NEW c \in Calls, NEW k \in Task, Becomes(c, k),
         k.opened = {} \/ (task[c] # NoTask /\ k.opened = task[c].opened /\ k.op = task[c].op)
  PROVE  OpenedInv'
  BY DEF OpenedInv, Becomes
-----------------------------------------------------------------------------
(* The same frame for the whole invariant. *)
LEMMA QuietTask ==
  ASSUME DirectoryInv, NEW c \in Calls, NEW k \in Task, Becomes(c, k), DirectoryTypeOK',
         employed' = employed, contacts' = contacts,
         task[c] # NoTask => /\ task[c].op = k.op /\ task[c].row <= k.row
                             /\ task[c].step # "done",
         k.op \in {"update", "deactivate"} =>
           /\ k.step \notin {"locked", "opened"}
           /\ IF task[c] = NoTask THEN k.person \in employed ELSE k.person = task[c].person,
         k.op \in {"create", "bulk"} /\ k.step # "done" => k.person = <<c, k.row>>,
         k.op \in {"create", "bulk"} => k.opened \subseteq Calls,
         k.op = "type" => k.opened \subseteq People
  PROVE  DirectoryInv'
<1>1. ContactsInv'
  BY TaskFrame
<1>2. OpenedInv'
  BY DirectoryAssumption DEF DirectoryInv, OpenedInv, Becomes
<1> QED
  BY <1>1, <1>2 DEF DirectoryInv

(* What the record of a call in the directory says before its step. *)
LEMMA TaskBefore ==
  ASSUME DirectoryInv, NEW c \in Calls, task[c] # NoTask
  PROVE  /\ task[c] \in Task /\ task[c].row \in Nat /\ task[c].row >= 1
         /\ task[c].op \in {"create", "bulk", "type", "update", "deactivate"}
         /\ task[c].person \in People
         /\ task[c].op \in {"create", "bulk"} => task[c].opened \subseteq Calls
         /\ task[c].op = "type" => task[c].opened \subseteq People
         /\ task[c].op \in {"create", "bulk"} /\ task[c].step # "done" =>
              task[c].person = <<c, task[c].row>> /\ task[c].row \in 1..MaxRows
<1>1. task[c] \in Task
  BY DEF DirectoryInv, DirectoryTypeOK
<1>2. task[c].row \in 1..MaxRows
  BY <1>1, TaskFields
<1> QED
  BY <1>1, <1>2, TaskFields, DirectoryAssumption
     DEF DirectoryInv, OpenedInv, ContactsInv, UnbornInv, Hires

LEMMA SkipsRow ==
  ASSUME DirectoryInv, NEW c \in Calls, task[c] # NoTask, task[c].step # "done", NextRow(c),
         employed' = employed, UNCHANGED <<email, place, contacts, type, balance, edited>>
  PROVE  DirectoryInv'
<1>0. DirectoryTypeOK
  BY DEF DirectoryInv
<1>1. PICK k \in Task : /\ Becomes(c, k) /\ k.op = task[c].op /\ k.opened = {}
                        /\ \/ k.step = "done" /\ k.row = task[c].row /\ k.person = task[c].person
                           \/ /\ k.step = "naming" /\ k.op = "bulk"
                              /\ k.row = task[c].row + 1 /\ k.person = <<c, k.row>>
  BY <1>0, NextRowTaken
<1>2. DirectoryTypeOK'
  BY <1>0, <1>1 DEF DirectoryTypeOK, Becomes
<1>3. task[c].row \in Nat
  BY TaskBefore
<1>4. task[c].row <= k.row
  BY <1>1, <1>3
<1>5. k.op \in {"update", "deactivate"} => k.step = "done" /\ k.person = task[c].person
  BY <1>1
<1>6. k.op \in {"create", "bulk"} /\ k.step # "done" => k.person = <<c, k.row>>
  BY <1>1
<1> QED
  BY <1>1, <1>2, <1>4, <1>5, <1>6, QuietTask

LEMMA ClosesCall ==
  ASSUME DirectoryInv, NEW c \in Calls, task[c] # NoTask, task[c].step # "done", Ends(c),
         DirectoryTypeOK', employed' = employed, contacts' = contacts
  PROVE  DirectoryInv'
<1>1. PICK k \in Task : /\ Becomes(c, k) /\ k.step = "done" /\ k.op = task[c].op
                        /\ k.row = task[c].row /\ k.person = task[c].person /\ k.opened = {}
  BY Closed DEF DirectoryInv
<1>2. task[c].row <= k.row
  BY <1>1, TaskBefore
<1> QED
  BY <1>1, <1>2, QuietTask

LEMMA ClosedType ==
  ASSUME DirectoryTypeOK, NEW c \in Calls, task[c] # NoTask, Ends(c) \/ NextRow(c)
  PROVE  task' \in [Calls -> Task \cup {NoTask}]
  BY Closed, NextRowTaken DEF Becomes

(* A call that begins. *)
LEMMA BeginsCall ==
  ASSUME DirectoryInv, NEW c \in Calls, NEW k \in Task, Becomes(c, k), task[c] = NoTask,
         UNCHANGED <<documents, email, place, contacts, type, balance, edited>>,
         k.opened = {}, k.step \notin {"locked", "opened"},
         k.op \in {"update", "deactivate"} => k.person \in employed,
         k.op \in {"create", "bulk"} => k.person = <<c, k.row>>
  PROVE  DirectoryInv'
<1>1. employed' = employed
  BY DEF documents
<1>2. DirectoryTypeOK'
  BY DEF DirectoryInv, DirectoryTypeOK, Becomes
<1> QED
  BY <1>1, <1>2, QuietTask
-----------------------------------------------------------------------------
LEMMA StepCreations ==
  ASSUME DirectoryInv, DocumentsTypeOK, NEW c \in Calls,
         \/ Create(c) \/ BulkCreate(c) \/ CreateLeaveType(c) \/ Update(c) \/ Deactivate(c)
  PROVE  DirectoryInv'
<1>0. DirectoryTypeOK /\ Seed \subseteq People /\ employed \subseteq People /\ <<c, 1>> \in People
  BY DirectoryAssumption DEF DirectoryInv, DocumentsTypeOK
<1>1. CASE Create(c)
  <2>1. task[c] = NoTask /\ UNCHANGED <<documents, email, place, contacts, type, balance, edited>>
    BY <1>1 DEF Create
  <2> QED BY <1>0, <1>1, <2>1, Created, BeginsCall
<1>2. CASE BulkCreate(c)
  <2>1. /\ Begins(c, "bulk", "naming", <<c, 1>>) /\ task[c] = NoTask
        /\ UNCHANGED <<documents, email, place, contacts, type, balance, edited>>
    BY <1>2 DEF BulkCreate, Begins
  <2>2. \E k \in Task : /\ Becomes(c, k) /\ k.step = "naming" /\ k.op = "bulk"
                        /\ k.row = 1 /\ k.person = <<c, 1>> /\ k.opened = {}
    BY <1>0, <2>1, Begun DEF Moments
  <2> QED BY <2>1, <2>2, BeginsCall
<1>3. CASE CreateLeaveType(c)
  <2>1. PICK e \in Seed : Begins(c, "type", "inserted", e)
    BY <1>3 DEF CreateLeaveType
  <2>2. task[c] = NoTask /\ UNCHANGED <<documents, email, place, contacts, type, balance, edited>>
    BY <2>1 DEF Begins
  <2>3. \E k \in Task : /\ Becomes(c, k) /\ k.step = "inserted" /\ k.op = "type"
                        /\ k.row = 1 /\ k.person = e /\ k.opened = {}
    BY <1>0, <2>1, Begun DEF Moments
  <2> QED BY <2>2, <2>3, BeginsCall
<1>4. CASE Update(c)
  <2>1. task[c] = NoTask /\ UNCHANGED <<documents, email, place, contacts, type, balance, edited>>
    BY <1>4 DEF Update
  <2> QED BY <1>0, <1>4, <2>1, Updated, BeginsCall
<1>5. CASE Deactivate(c)
  <2>1. PICK e \in employed : Begins(c, "deactivate", "validated", e)
    BY <1>5 DEF Deactivate
  <2>2. task[c] = NoTask /\ UNCHANGED <<documents, email, place, contacts, type, balance, edited>>
    BY <2>1 DEF Begins
  <2>3. \E k \in Task : /\ Becomes(c, k) /\ k.step = "validated" /\ k.op = "deactivate"
                        /\ k.row = 1 /\ k.person = e /\ k.opened = {}
    BY <1>0, <2>1, Begun DEF Moments
  <2> QED BY <2>2, <2>3, BeginsCall
<1> QED BY <1>1, <1>2, <1>3, <1>4, <1>5

(* The steps that only read and prepare. *)
LEMMA StepPreparations ==
  ASSUME DirectoryInv, DocumentsTypeOK, NEW c \in Calls,
         \/ Name(c) \/ Insert(c) \/ Collide(c) \/ OpenBalances(c) \/ OpenForStaff(c) \/ RollBack(c)
  PROVE  DirectoryInv'
<1>0. /\ DirectoryTypeOK /\ employed' = employed /\ task[c] # NoTask /\ task[c].step # "done"
      /\ UNCHANGED <<email, place, contacts, type, balance, edited>>
  BY DEF DirectoryInv, Name, Insert, Collide, OpenBalances, OpenForStaff, RollBack, Doing, documents
<1>1. ASSUME NEW k \in Task, Becomes(c, k) PROVE DirectoryTypeOK'
  BY <1>0, <1>1 DEF DirectoryTypeOK, Becomes
<1>2. CASE Collide(c) \/ RollBack(c)
  BY <1>0, <1>2, SkipsRow DEF Collide, RollBack
<1>3. CASE Name(c)
  <2>1. PICK k \in Task : /\ Becomes(c, k) /\ k.op = task[c].op
                          /\ \/ /\ k.step = "named" /\ k.row = task[c].row
                                /\ k.person = task[c].person /\ k.opened = task[c].opened
                             \/ /\ k.step = "done" /\ k.row = task[c].row
                                /\ k.person = task[c].person /\ k.opened = {}
                             \/ /\ k.step = "naming" /\ k.op = "bulk" /\ k.row = task[c].row + 1
                                /\ k.person = <<c, k.row>> /\ k.opened = {}
    BY <1>0, <1>3, Named
  <2>2. task[c].row <= k.row
    BY <1>0, <2>1, TaskBefore
  <2> QED
    BY <1>0, <1>1, <2>1, <2>2, TaskBefore, QuietTask
<1>4. CASE Insert(c)
  <2>1. Creates(c) /\ Proceeds(c, "inserted") /\ "inserted" \in Moments
    BY <1>4 DEF Insert, Moments
  <2>2. PICK k \in Task : /\ Becomes(c, k) /\ k.step = "inserted" /\ k.op = task[c].op
                          /\ k.row = task[c].row /\ k.person = task[c].person
                          /\ k.opened = task[c].opened
    BY <1>0, <2>1, Proceeded
  <2>3. task[c].row <= k.row /\ k.op \in {"create", "bulk"}
    BY <1>0, <2>1, <2>2, TaskBefore DEF Creates
  <2> QED
    BY <1>0, <1>1, <2>2, <2>3, TaskBefore, QuietTask
<1>5. CASE OpenBalances(c)
  <2> DEFINE opened == {t \in Calls : type[t] = "quota"}
  <2>1. Creates(c) /\ task' = [task EXCEPT ![c].step = "opened", ![c].opened = opened]
    BY <1>5 DEF OpenBalances
  <2>2. opened \subseteq Calls
    OBVIOUS
  <2> HIDE DEF opened
  <2>3. PICK k \in Task : /\ Becomes(c, k) /\ k.step = "opened" /\ k.op = task[c].op
                          /\ k.row = task[c].row /\ k.person = task[c].person /\ k.opened = opened
    BY <1>0, <2>1, <2>2, Opened
  <2>4. task[c].row <= k.row /\ k.op \in {"create", "bulk"}
    BY <1>0, <2>1, <2>3, TaskBefore DEF Creates
  <2> QED
    BY <1>0, <1>1, <2>2, <2>3, <2>4, TaskBefore, QuietTask
<1>6. CASE OpenForStaff(c)
  <2>1. task[c].op = "type" /\ task' = [task EXCEPT ![c].step = "opened", ![c].opened = employed]
    BY <1>6 DEF OpenForStaff, OpensFor
  <2>2. employed \subseteq People
    BY DEF DocumentsTypeOK
  <2>3. PICK k \in Task : /\ Becomes(c, k) /\ k.step = "opened" /\ k.op = task[c].op
                          /\ k.row = task[c].row /\ k.person = task[c].person /\ k.opened = employed
    BY <1>0, <2>1, <2>2, Opened
  <2>4. task[c].row <= k.row /\ k.op = "type"
    BY <1>0, <2>1, <2>3, TaskBefore
  <2> QED
    BY <1>0, <1>1, <2>2, <2>3, <2>4, QuietTask
<1> QED BY <1>2, <1>3, <1>4, <1>5, <1>6
-----------------------------------------------------------------------------
(* The transactions that write: each of a hire, of a leave type, of an edit. *)
LEMMA StepHire ==
  ASSUME DirectoryInv, DocumentsTypeOK, NEW c \in Calls, CommitEmployee(c)
  PROVE  DirectoryInv'
<1> DEFINE e == task[c].person
           list == IF task[c].op = "create" THEN {c} ELSE {}
<1>0. DirectoryTypeOK /\ HolderInv /\ ListInv /\ UnbornInv /\ OneList /\ OpenedInv
  BY DEF DirectoryInv, ContactsInv
<1>1. /\ task[c] # NoTask /\ task[c].step = "opened" /\ task[c].op \in {"create", "bulk"}
      /\ employed' = employed \cup {e} /\ email' = [email EXCEPT ![e] = task[c].email]
      /\ contacts' = [contacts EXCEPT ![e] = list]
      /\ balance' = balance \cup ({e} \X task[c].opened)
      /\ NextRow(c) /\ UNCHANGED <<place, type, edited>>
  BY DEF CommitEmployee, Creates, Doing
<1>2. /\ task[c] \in Task /\ task[c].row \in 1..MaxRows /\ task[c].row \in Nat
      /\ e = <<c, task[c].row>> /\ e \in People
      /\ task[c].opened \subseteq Calls /\ task[c].email \in 0..Addresses
  BY <1>1, TaskBefore, TaskFields
<1>3. /\ e \notin employed /\ contacts[e] = {}
      /\ \A d \in Calls : Edits(d) => task[d].person # e
      /\ \A n \in 1..MaxRows : n >= task[c].row => Unborn(<<c, n>>)
  <2>1. Hires(c)
    BY <1>1 DEF Hires
  <2>2. \A n \in 1..MaxRows : n >= task[c].row => Unborn(<<c, n>>)
    BY <1>0, <2>1 DEF UnbornInv
  <2>3. Unborn(e)
    BY <1>2, <2>2
  <2> QED BY <2>2, <2>3 DEF Unborn
<1>4. PICK k \in Task : /\ Becomes(c, k) /\ k.op = task[c].op /\ k.opened = {}
                        /\ \/ k.step = "done" /\ k.row = task[c].row /\ k.person = task[c].person
                           \/ /\ k.step = "naming" /\ k.op = "bulk"
                              /\ k.row = task[c].row + 1 /\ k.person = <<c, k.row>>
  BY <1>0, <1>1, NextRowTaken
<1>5. k # NoTask
  BY DirectoryAssumption
<1>6. /\ contacts' \in [People -> SUBSET Calls] /\ contacts'[e] = list
      /\ \A x \in People \ {e} : contacts'[x] = contacts[x]
  <2>1. list \subseteq Calls
    OBVIOUS
  <2> HIDE DEF list
  <2> QED BY <1>0, <1>1, <1>2, <2>1 DEF DirectoryTypeOK
<1> HIDE DEF e, list
<1>7. DirectoryTypeOK'
  <2>1. email' \in [People -> 0..Addresses]
    BY <1>0, <1>1, <1>2 DEF DirectoryTypeOK
  <2>2. balance' \subseteq People \X Calls
    BY <1>0, <1>1, <1>2 DEF DirectoryTypeOK
  <2> QED
    BY <1>0, <1>1, <1>4, <1>6, <2>1, <2>2 DEF DirectoryTypeOK, Becomes
<1>8. OpenedInv'
  BY <1>0, <1>4, OpenedFrame
<1>9. \A d \in Calls : Editing(d)' => d # c /\ Editing(d) /\ task'[d] = task[d] /\ task[d].person # e
  BY <1>1, <1>3, <1>4, <1>5 DEF Editing, Edits, Becomes
<1>10. HolderInv'
  BY <1>0, <1>9 DEF HolderInv
<1>11. ListInv'
  <2>1. \A d \in Calls : Editing(d) => task[d].person \in People
    BY TaskBefore DEF Editing, Edits
  <2> QED
    BY <1>0, <1>6, <1>9, <2>1 DEF ListInv
<1>12. \A x \in People : Unborn(x) /\ x # e => Unborn(x)'
  BY <1>1, <1>4, <1>5, <1>6 DEF Unborn, Edits, Becomes
<1>13. UnbornInv'
  <2>1. \A d \in Calls, n \in 1..MaxRows : <<d, n>> \in People /\ (d # c => <<d, n>> # e)
    BY <1>2, NewPeople
  <2>2. ASSUME NEW d \in Calls, d # c
        PROVE  /\ task'[d] = NoTask => \A n \in 1..MaxRows : Unborn(<<d, n>>)'
               /\ Hires(d)' => /\ task'[d].person = <<d, task'[d].row>>
                               /\ \A n \in 1..MaxRows : n >= task'[d].row => Unborn(<<d, n>>)'
    <3>1. task'[d] = task[d] /\ (Hires(d)' <=> Hires(d))
      BY <1>4, <2>2 DEF Becomes, Hires
    <3> QED
      BY <1>0, <1>12, <2>1, <2>2, <3>1 DEF UnbornInv
  <2>3. task'[c] = k /\ k # NoTask
    BY <1>4, <1>5 DEF Becomes
  <2>4. ASSUME Hires(c)'
        PROVE  /\ k.person = <<c, k.row>>
               /\ \A n \in 1..MaxRows : n >= k.row => Unborn(<<c, n>>)'
    <3>1. k.step # "done"
      BY <2>3, <2>4 DEF Hires
    <3>2. k.row = task[c].row + 1 /\ k.person = <<c, k.row>>
      BY <1>4, <3>1
    <3>3. ASSUME NEW n \in 1..MaxRows, n >= k.row PROVE Unborn(<<c, n>>)'
      <4>0. n \in Nat /\ n >= task[c].row /\ n # task[c].row
        BY <1>2, <3>2, <3>3, DirectoryAssumption
      <4>1. Unborn(<<c, n>>)
        BY <1>3, <4>0
      <4>2. <<c, n>> # e
        BY <1>2, <4>0
      <4> QED BY <1>12, <2>1, <4>1, <4>2
    <3> QED BY <3>2, <3>3
  <2> QED
    BY <2>2, <2>3, <2>4 DEF UnbornInv
<1>14. OneList'
  BY <1>0, <1>6 DEF OneList, list
<1> QED
  BY <1>7, <1>8, <1>10, <1>11, <1>13, <1>14 DEF DirectoryInv, ContactsInv

LEMMA StepTypes ==
  ASSUME DirectoryInv, NEW c \in Calls, CommitType(c) \/ UpdateLeaveType(c)
  PROVE  DirectoryInv'
<1>0. DirectoryTypeOK
  BY DEF DirectoryInv
<1>1. CASE CommitType(c)
  <2>1. /\ task[c] # NoTask /\ task[c].op = "type" /\ task[c].step # "done" /\ Ends(c)
        /\ employed' = employed /\ contacts' = contacts
        /\ UNCHANGED <<email, place, edited>>
        /\ type' \in [Calls -> {"none", "quota", "free"}]
        /\ balance' = balance \cup (task[c].opened \X {c})
    BY <1>0, <1>1 DEF CommitType, Doing, documents, DirectoryTypeOK
  <2>2. balance' \subseteq People \X Calls
    BY <1>0, <2>1, TaskBefore DEF DirectoryTypeOK
  <2>3. DirectoryTypeOK'
    BY <1>0, <2>1, <2>2, ClosedType DEF DirectoryTypeOK
  <2> QED
    BY <2>1, <2>3, ClosesCall
<1>2. CASE UpdateLeaveType(c)
  <2>1. /\ UNCHANGED <<email, place, contacts, balance, task>> /\ employed' = employed
        /\ type' \in [Calls -> {"none", "quota", "free"}] /\ edited' \subseteq Calls
    BY <1>0, <1>2 DEF UpdateLeaveType, documents, DirectoryTypeOK
  <2>2. DirectoryTypeOK'
    BY <1>0, <2>1 DEF DirectoryTypeOK
  <2> QED
    BY <2>1, <2>2 DEF DirectoryInv, OpenedInv, ContactsInv, HolderInv, ListInv, UnbornInv,
       OneList, Editing, Edits, Hires, Unborn
<1> QED BY <1>1, <1>2

LEMMA StepLock ==
  ASSUME DirectoryInv, DocumentsTypeOK, NEW c \in Calls, Lock(c)
  PROVE  DirectoryInv'
<1>0. /\ DirectoryTypeOK /\ HolderInv /\ ListInv /\ UnbornInv /\ OneList /\ OpenedInv
      /\ employed' = employed
      /\ UNCHANGED <<email, place, contacts, type, balance, edited>>
      /\ task[c] # NoTask /\ task[c].step = "validated" /\ ~ RowHeld(task[c].person)
  BY DEF DirectoryInv, ContactsInv, Lock, Doing, documents
<1>1. CASE Ends(c)
  <2>1. DirectoryTypeOK'
    BY <1>0, <1>1, ClosedType DEF DirectoryTypeOK
  <2> QED BY <1>0, <1>1, <2>1, ClosesCall
<1>2. CASE Proceeds(c, "locked") /\ task[c].person \in employed
  <2>1. PICK k \in Task : /\ Becomes(c, k) /\ k.step = "locked" /\ k.op = task[c].op
                          /\ k.row = task[c].row /\ k.person = task[c].person
                          /\ k.opened = task[c].opened
    BY <1>0, <1>2, Proceeded DEF Moments
  <2>2. k # NoTask
    BY DirectoryAssumption
  <2>3. DirectoryTypeOK'
    BY <1>0, <2>1 DEF DirectoryTypeOK, Becomes
  <2>4. OpenedInv'
    BY <1>0, <2>1, OpenedFrame
  <2>5. \A d \in Calls \ {c} : (Editing(d)' <=> Editing(d)) /\ task'[d] = task[d]
    BY <2>1 DEF Becomes, Editing, Edits
  <2>6. \A d \in Calls : Editing(d) => task[d].person # k.person
    BY <1>0, <2>1 DEF RowHeld, Editing, Edits, Doing
  <2>7. HolderInv'
    BY <1>0, <2>1, <2>5, <2>6 DEF HolderInv, Becomes
  <2>8. ListInv'
    BY <1>0, <2>1, <2>5 DEF ListInv, Becomes
  <2>9. \A d \in Calls : Edits(d)' => Edits(d) /\ task'[d].person = task[d].person
    BY <1>0, <2>1, <2>2 DEF Edits, Becomes
  <2>10. \A x : Unborn(x) => Unborn(x)'
    BY <1>0, <2>9 DEF Unborn
  <2>11. \A d \in Calls : Hires(d)' =>
           /\ Hires(d) /\ task'[d].person = task[d].person /\ task'[d].row = task[d].row
    BY <1>0, <2>1, <2>2 DEF Hires, Becomes
  <2>12. \A d \in Calls : task'[d] = NoTask => task[d] = NoTask
    BY <2>1, <2>2 DEF Becomes
  <2>13. UnbornInv'
    BY <1>0, <2>10, <2>11, <2>12 DEF UnbornInv
  <2>14. OneList'
    BY <1>0 DEF OneList
  <2> QED
    BY <2>3, <2>4, <2>7, <2>8, <2>13, <2>14 DEF DirectoryInv, ContactsInv
<1> QED BY <1>1, <1>2 DEF Lock

LEMMA StepDeleteContacts ==
  ASSUME DirectoryInv, NEW c \in Calls, DeleteContacts(c)
  PROVE  DirectoryInv'
<1> DEFINE list == contacts[task[c].person]
<1>0. /\ DirectoryTypeOK /\ HolderInv /\ ListInv /\ UnbornInv /\ OneList /\ OpenedInv
      /\ employed' = employed
      /\ UNCHANGED <<email, place, contacts, type, balance, edited>>
      /\ task[c] # NoTask /\ task[c].step = "locked" /\ task[c].op = "update"
      /\ task' = [task EXCEPT ![c].step = "opened", ![c].opened = list]
  BY DEF DirectoryInv, ContactsInv, DeleteContacts, Doing, documents
<1>1. list \subseteq Calls
  BY <1>0, TaskBefore DEF DirectoryTypeOK
<1> HIDE DEF list
<1>2. PICK k \in Task : /\ Becomes(c, k) /\ k.step = "opened" /\ k.op = task[c].op
                        /\ k.row = task[c].row /\ k.person = task[c].person /\ k.opened = list
  BY <1>0, <1>1, Opened
<1>3. k # NoTask
  BY DirectoryAssumption
<1>4. DirectoryTypeOK'
  BY <1>0, <1>2 DEF DirectoryTypeOK, Becomes
<1>5. OpenedInv'
  BY <1>0, <1>2 DEF OpenedInv, Becomes
<1>6. \A d \in Calls : Edits(d)' => Edits(d) /\ task'[d].person = task[d].person
  BY <1>0, <1>2, <1>3 DEF Edits, Becomes
<1>7. \A d \in Calls : Editing(d)' => Editing(d)
  BY <1>0, <1>2, <1>3 DEF Editing, Edits, Becomes
<1>8. HolderInv'
  BY <1>0, <1>6, <1>7 DEF HolderInv, Editing
<1>9. ListInv'
  BY <1>0, <1>2, <1>7 DEF ListInv, Becomes, list
<1>10. \A x : Unborn(x) => Unborn(x)'
  BY <1>0, <1>6 DEF Unborn
<1>11. \A d \in Calls : Hires(d)' =>
         /\ Hires(d) /\ task'[d].person = task[d].person /\ task'[d].row = task[d].row
  BY <1>0, <1>2, <1>3 DEF Hires, Becomes
<1>12. \A d \in Calls : task'[d] = NoTask => task[d] = NoTask
  BY <1>2, <1>3 DEF Becomes
<1>13. UnbornInv'
  BY <1>0, <1>10, <1>11, <1>12 DEF UnbornInv
<1> QED
  BY <1>0, <1>4, <1>5, <1>8, <1>9, <1>13 DEF DirectoryInv, ContactsInv, OneList

(* The end of an edit, the list of whose employee may be a new one. *)
LEMMA EditEnds ==
  ASSUME DirectoryInv, NEW c \in Calls, Editing(c), Ends(c), DirectoryTypeOK',
         employed' \subseteq employed,
         \A x \in People \ {task[c].person} : contacts'[x] = contacts[x],
         contacts'[task[c].person] \in {contacts[task[c].person], {c}}
  PROVE  DirectoryInv'
<1>0. /\ DirectoryTypeOK /\ HolderInv /\ ListInv /\ UnbornInv /\ OneList /\ OpenedInv
      /\ task[c] # NoTask
  BY DEF DirectoryInv, ContactsInv, Editing, Edits
<1>1. PICK k \in Task : /\ Becomes(c, k) /\ k.step = "done" /\ k.op = task[c].op
                        /\ k.row = task[c].row /\ k.person = task[c].person /\ k.opened = {}
  BY <1>0, Closed
<1>2. k # NoTask
  BY DirectoryAssumption
<1>3. OpenedInv'
  BY <1>0, <1>1, OpenedFrame
<1>4. \A d \in Calls : Edits(d)' => Edits(d) /\ task'[d].person = task[d].person
  BY <1>0, <1>1, <1>2 DEF Edits, Becomes
<1>5. \A d \in Calls : Editing(d)' => /\ d # c /\ Editing(d) /\ task'[d] = task[d]
                                      /\ task[d].person # task[c].person
  BY <1>0, <1>1, <1>2 DEF Editing, Edits, Becomes, HolderInv
<1>6. HolderInv'
  BY <1>0, <1>5 DEF HolderInv
<1>7. ListInv'
  <2>1. \A d \in Calls : Editing(d) => task[d].person \in People
    BY TaskBefore DEF Editing, Edits
  <2> QED
    BY <1>0, <1>5, <2>1 DEF ListInv
<1>8. \A x \in People : Unborn(x) => Unborn(x)'
  BY <1>4 DEF Unborn, Editing
<1>9. \A d \in Calls : Hires(d)' =>
        /\ Hires(d) /\ task'[d].person = task[d].person /\ task'[d].row = task[d].row
  BY <1>0, <1>1, <1>2 DEF Hires, Becomes
<1>10. \A d \in Calls : task'[d] = NoTask => task[d] = NoTask
  BY <1>1, <1>2 DEF Becomes
<1>11. UnbornInv'
  BY <1>0, <1>8, <1>9, <1>10, NewPeople DEF UnbornInv
<1>12. OneList'
  BY <1>0 DEF OneList
<1> QED
  BY <1>3, <1>6, <1>7, <1>11, <1>12 DEF DirectoryInv, ContactsInv

LEMMA MergedPlace ==
  ASSUME NEW old \in Places, NEW change \in Changes
  PROVE  Merged(old, change) \in Places
<1>1. /\ old.department \in Departments /\ old.position \in Departments
      /\ change.department \in Departments \cup {Unchanged}
      /\ change.position \in Departments \cup {Unchanged}
  BY DEF Places, Changes
<1> DEFINE new(f) == IF change[f] = Unchanged THEN old[f] ELSE change[f]
<1>2. new("department") \in Departments /\ new("position") \in Departments
  BY <1>1
<1>3. [f \in {"department", "position"} |-> new(f)] \in [{"department", "position"} -> Departments]
  BY <1>2, Zenon
<1>4. [{"department", "position"} -> Departments] \subseteq Places
  BY DEF Places
<1> QED
  BY <1>3, <1>4 DEF Merged

LEMMA StepEdits ==
  ASSUME DirectoryInv, DocumentsTypeOK, NEW c \in Calls, CommitUpdate(c) \/ CommitDeactivation(c)
  PROVE  DirectoryInv'
<1>0. DirectoryTypeOK /\ ListInv
  BY DEF DirectoryInv, ContactsInv
<1>1. CASE CommitUpdate(c)
  <2> DEFINE e == task[c].person
  <2>1. /\ task[c] # NoTask /\ task[c].op = "update" /\ task[c].step \in {"locked", "opened"}
        /\ Ends(c) /\ employed' = employed
        /\ UNCHANGED <<email, type, balance, edited>>
        /\ place' = [place EXCEPT ![e] = Merged(place[e], task[c].change)]
    BY <1>1 DEF CommitUpdate, Doing, documents
  <2>2. Editing(c) /\ e \in People /\ task[c] \in Task /\ task[c].change \in Changes
    BY <2>1, TaskBefore, TaskFields DEF Editing, Edits
  <2>3. /\ contacts' \in [People -> SUBSET Calls]
        /\ \A x \in People \ {e} : contacts'[x] = contacts[x]
        /\ contacts'[e] \in {contacts[e], {c}}
    <3>1. CASE UNCHANGED contacts
      BY <1>0, <3>1 DEF DirectoryTypeOK
    <3>2. CASE Doing(c, "opened") /\ contacts' = [contacts EXCEPT ![e] = (@ \ task[c].opened) \cup {c}]
      <4>1. task[c].opened = contacts[e]
        BY <1>0, <2>1, <2>2, <3>2 DEF ListInv, Doing
      <4>2. (contacts[e] \ task[c].opened) \cup {c} = {c}
        BY <4>1
      <4>3. contacts' = [contacts EXCEPT ![e] = {c}]
        BY <3>2, <4>2
      <4> HIDE DEF e
      <4> QED BY <1>0, <2>2, <4>3 DEF DirectoryTypeOK
    <3> QED BY <1>1, <3>1, <3>2 DEF CommitUpdate
  <2>4. place' \in [People -> Places]
    <3>1. place[e] \in Places
      BY <1>0, <2>2 DEF DirectoryTypeOK
    <3>2. Merged(place[e], task[c].change) \in Places
      BY <2>2, <3>1, MergedPlace
    <3> QED BY <1>0, <2>1, <2>2, <3>2 DEF DirectoryTypeOK
  <2>5. DirectoryTypeOK'
    BY <1>0, <2>1, <2>3, <2>4, ClosedType DEF DirectoryTypeOK
  <2> QED
    BY <2>1, <2>2, <2>3, <2>5, EditEnds
<1>2. CASE CommitDeactivation(c)
  <2>1. /\ task[c] # NoTask /\ task[c].op = "deactivate" /\ task[c].step = "locked"
        /\ Ends(c) /\ employed' \subseteq employed
        /\ UNCHANGED <<email, place, contacts, type, balance, edited>>
    BY <1>2 DEF CommitDeactivation, Doing
  <2>2. Editing(c)
    BY <2>1 DEF Editing, Edits
  <2>3. DirectoryTypeOK'
    BY <1>0, <2>1, ClosedType DEF DirectoryTypeOK
  <2> QED
    BY <2>1, <2>2, <2>3, EditEnds
<1> QED BY <1>1, <1>2

LEMMA DirectoryKept ==
  ASSUME DirectoryInv, UNCHANGED directory, employed' = employed
  PROVE  DirectoryInv'
  BY DEF directory, DirectoryInv, DirectoryTypeOK, OpenedInv, ContactsInv, HolderInv, ListInv,
     UnbornInv, OneList, Editing, Edits, Hires, Unborn

(* An upload does nothing to the staff. *)
LEMMA UploadsOnly ==
  ASSUME NEW c \in Calls, Uploads(c)
  PROVE  UNCHANGED directory /\ employed' = employed /\ DocumentsNext
<1>1. UNCHANGED directory
  BY DEF Uploads
<1>2. \/ \E e \in People : UploadDocument(c, e) \/ UpdatePhoto(c, e)
      \/ AttachToRequest(c) \/ DocumentsStep(c)
  BY DEF Uploads
<1>3. DocumentsNext
  BY <1>2 DEF DocumentsNext
<1>4. employed' = employed
  BY <1>2 DEF UploadDocument, UpdatePhoto, AttachToRequest, Starts, DocumentsStep, PutObject,
     BeginWrite, Write, WriteNothing, CommitWrite, RemovePrevious, Compensate, CompensateInVain,
     FailUpload, StopUpload
<1> QED BY <1>1, <1>3, <1>4

LEMMA StepDirectory ==
  ASSUME DirectoryInv, DocumentsTypeOK, [Next]_vars
  PROVE  DirectoryInv'
<1>1. ASSUME NEW c \in Calls,
             Create(c) \/ BulkCreate(c) \/ CreateLeaveType(c) \/ Update(c) \/ Deactivate(c)
      PROVE  DirectoryInv'
  BY <1>1, StepCreations
<1>2. ASSUME NEW c \in Calls, DirectoryStep(c) PROVE DirectoryInv'
  <2>1. CASE Name(c) \/ Insert(c) \/ Collide(c) \/ OpenBalances(c) \/ OpenForStaff(c) \/ RollBack(c)
    BY <2>1, StepPreparations
  <2>2. CASE CommitEmployee(c)
    BY <2>2, StepHire
  <2>3. CASE CommitType(c)
    BY <2>3, StepTypes
  <2>4. CASE Lock(c)
    BY <2>4, StepLock
  <2>5. CASE DeleteContacts(c)
    BY <2>5, StepDeleteContacts
  <2>6. CASE CommitUpdate(c) \/ CommitDeactivation(c)
    BY <2>6, StepEdits
  <2> QED BY <1>2, <2>1, <2>2, <2>3, <2>4, <2>5, <2>6 DEF DirectoryStep
<1>3. ASSUME NEW c \in Calls, UpdateLeaveType(c) PROVE DirectoryInv'
  BY <1>3, StepTypes
<1>4. ASSUME NEW c \in Calls, Uploads(c) PROVE DirectoryInv'
  BY <1>4, UploadsOnly, DirectoryKept
<1>5. ASSUME NEW b \in BOOLEAN, OfferDocumentType(b), UNCHANGED directory PROVE DirectoryInv'
  BY <1>5, DirectoryKept DEF OfferDocumentType
<1>6. CASE UNCHANGED vars
  BY <1>6, DirectoryKept DEF vars, documents
<1> QED BY <1>1, <1>2, <1>3, <1>4, <1>5, <1>6 DEF Next
-----------------------------------------------------------------------------
(* What the directory does is one of the changes of the staff that           *)
(* EmployeeDocuments allows, or nothing to it.                               *)
LEMMA StepImplements ==
  ASSUME DirectoryInv, DocumentsTypeOK, [Next]_vars
  PROVE  [DocumentsNext]_documents
<1>1. ASSUME NEW c \in Calls, CommitEmployee(c) PROVE DocumentsNext
  <2>1. task[c].person \in People /\ employed \subseteq People
    BY <1>1, TaskBefore DEF CommitEmployee, Creates, DocumentsTypeOK
  <2>2. StaffChanges
    BY <1>1, <2>1 DEF CommitEmployee, StaffChanges
  <2> QED BY <2>2 DEF DocumentsNext
<1>2. ASSUME NEW c \in Calls, CommitDeactivation(c) PROVE DocumentsNext
  <2>1. StaffChanges
    BY <1>2 DEF CommitDeactivation, StaffChanges, DocumentsTypeOK
  <2> QED BY <2>1 DEF DocumentsNext
<1>3. ASSUME NEW c \in Calls, Uploads(c) PROVE DocumentsNext
  BY <1>3, UploadsOnly
<1>4. ASSUME NEW b \in BOOLEAN, OfferDocumentType(b) PROVE DocumentsNext
  BY <1>4 DEF DocumentsNext
<1>5. ASSUME NEW c \in Calls, UpdateLeaveType(c) PROVE UNCHANGED documents
  BY <1>5 DEF UpdateLeaveType
<1>6. ASSUME NEW c \in Calls,
             Create(c) \/ BulkCreate(c) \/ CreateLeaveType(c) \/ Update(c) \/ Deactivate(c)
      PROVE  UNCHANGED documents
  BY <1>6 DEF Create, BulkCreate, CreateLeaveType, Update, Deactivate, Begins
<1>7. ASSUME NEW c \in Calls, DirectoryStep(c), ~ CommitEmployee(c), ~ CommitDeactivation(c)
      PROVE  UNCHANGED documents
  BY <1>7 DEF DirectoryStep, Name, Insert, Collide, OpenBalances, OpenForStaff, CommitType,
     Lock, DeleteContacts, CommitUpdate, RollBack
<1>8. CASE UNCHANGED vars
  BY <1>8 DEF vars
<1> QED BY <1>1, <1>2, <1>3, <1>4, <1>5, <1>6, <1>7, <1>8 DEF Next

(* The two invariants hold together: each step needs the types of the other. *)
LEMMA RecordsHold == Spec => [](DirectoryInv /\ FilesInv)
<1>1. Init => DirectoryInv /\ FilesInv
  <2>1. Init => DirectoryInv
    BY InitDirectory
  <2>2. Init => FilesInv
    BY InitFiles, DirectoryAssumption DEF Init
  <2> QED BY <2>1, <2>2
<1>2. DirectoryInv /\ FilesInv /\ [Next]_vars => (DirectoryInv /\ FilesInv)'
  <2> SUFFICES ASSUME DirectoryInv, FilesInv, [Next]_vars PROVE (DirectoryInv /\ FilesInv)'
    OBVIOUS
  <2>1. DocumentsTypeOK
    BY DEF FilesInv
  <2>2. DirectoryInv'
    BY <2>1, StepDirectory
  <2>3. FilesInv'
    BY <2>1, StepImplements, StepFiles
  <2> QED BY <2>2, <2>3
<1> QED BY <1>1, <1>2, PTL DEF Spec

(* Every record of an employee, a leave type, a call or an upload has its    *)
(* type: the address of a hire, the place an update merges, the balances     *)
(* that a hire and a new leave type open.                                    *)
THEOREM TypesHold == Spec => []TypeOK
<1>1. DirectoryInv /\ FilesInv => TypeOK
  BY DEF DirectoryInv, DirectoryTypeOK, FilesInv, TypeOK
<1> QED BY <1>1, RecordsHold, PTL

(* The directory implements the specification of the documents: a hire and a *)
(* deactivation are the changes of the staff that an upload may meet, and    *)
(* nothing else of the directory touches a file or a row that names one.     *)
THEOREM ImplementsDocuments == Spec => DocumentsSpec(Seed)
<1>1. Init => DocumentsInit(Seed)
  BY DEF Init
<1>2. DirectoryInv /\ FilesInv /\ [Next]_vars => [DocumentsNext]_documents
  BY StepImplements DEF FilesInv
<1> QED BY <1>1, <1>2, RecordsHold, PTL DEF Spec, DocumentsSpec

(* Hires, deactivations and edits of the staff around it, an upload still    *)
(* takes no file from a row, other than its own that was recorded unheard.   *)
THEOREM DocumentsStayKept == Spec => []RowsKeepDocuments
<1>1. DirectoryInv /\ FilesInv => RowsKeepDocuments
  BY FilesAreKept
<1> QED BY <1>1, RecordsHold, PTL

(* Of the composed system, through the refinement: a document nobody refers  *)
(* to is left only where an upload to its slot failed or two overlapped.     *)
THEOREM StrayFilesStayExplained == Spec => []StrayFilesExplained
<1>1. Seed \in SUBSET People
  BY DirectoryAssumption
<1>2. DocumentsSpec(Seed) => []StrayFilesExplained
  BY <1>1, StrayDocumentsExplained
<1> QED BY <1>2, ImplementsDocuments, PTL

(* However many updates of an employee run at once, the emergency contacts   *)
(* are those of one request: the row lock is held from before the DELETE to  *)
(* after the inserts, so that what was deleted is still the whole list.      *)
THEOREM ContactsKeptWhole == Spec => []ContactsFromOneRequest
<1>1. DirectoryInv => ContactsFromOneRequest
  <2> SUFFICES ASSUME DirectoryInv, NEW e \in People PROVE Cardinality(contacts[e]) <= 1
    BY DEF ContactsFromOneRequest
  <2>1. contacts[e] = {} \/ \E c \in Calls : contacts[e] = {c}
    BY DEF DirectoryInv, ContactsInv, OneList
  <2>2. CASE contacts[e] = {}
    BY <2>2, FS_EmptySet
  <2>3. CASE \E c \in Calls : contacts[e] = {c}
    BY <2>3, FS_Singleton
  <2> QED BY <2>1, <2>2, <2>3
<1> QED BY <1>1, RecordsHold, PTL
-----------------------------------------------------------------------------
(* Which calls ran at once: a call that begins notes the calls that are done *)
(* and a call that goes on keeps what it noted.                              *)
StartsNew(c) ==
  /\ task[c] = NoTask /\ task'[c] \in Task
  /\ task'[c].past = {d \in Calls : Doing(d, "done")} /\ task'[c].step # "done"
  /\ task'[c].opened = {}
  /\ \A d \in Calls \ {c} : task'[d] = task[d]

MovesOn(c) ==
  /\ task[c] \in Task /\ task[c].step # "done" /\ task'[c] \in Task
  /\ task'[c].op = task[c].op /\ task'[c].past = task[c].past
  /\ task[c].op \notin {"create", "bulk"} => task'[c].person = task[c].person
  /\ task'[c].step # "done" => task'[c].change = task[c].change
  /\ \A d \in Calls \ {c} : task'[d] = task[d]

LEMMA GoesOn ==
  ASSUME DirectoryTypeOK, NEW c \in Calls, task[c] # NoTask, task[c].step # "done",
         \/ \E step \in Moments : Proceeds(c, step)
         \/ \E a \in 1..Addresses : task' = [task EXCEPT ![c].step = "named", ![c].email = a]
         \/ \E o \in SUBSET (People \cup Calls) :
              task' = [task EXCEPT ![c].step = "opened", ![c].opened = o]
         \/ Ends(c) \/ NextRow(c)
  PROVE  MovesOn(c)
<1>0. task[c] \in Task
  BY DEF DirectoryTypeOK
<1>1. ASSUME NEW k \in Task, task' = [task EXCEPT ![c] = k], k.op = task[c].op,
             k.past = task[c].past, task[c].op \notin {"create", "bulk"} => k.person = task[c].person,
             k.step # "done" => k.change = task[c].change
      PROVE  MovesOn(c)
  BY <1>0, <1>1 DEF DirectoryTypeOK, MovesOn
<1>2. ASSUME NEW step \in Moments, Proceeds(c, step) PROVE MovesOn(c)
  <2> DEFINE k == [task[c] EXCEPT !.step = step]
  <2>1. k \in Task
    BY <1>0, TaskProceeds
  <2>2. k.op = task[c].op /\ k.past = task[c].past /\ k.person = task[c].person
        /\ k.change = task[c].change
    BY <1>0 DEF Task
  <2>3. task' = [task EXCEPT ![c] = k]
    BY <1>2 DEF Proceeds
  <2> HIDE DEF k
  <2> QED BY <1>1, <2>1, <2>2, <2>3
<1>3. ASSUME NEW a \in 1..Addresses, task' = [task EXCEPT ![c].step = "named", ![c].email = a]
      PROVE  MovesOn(c)
  <2> DEFINE k == [task[c] EXCEPT !.step = "named", !.email = a]
  <2>0. a \in 0..Addresses
    BY DirectoryAssumption
  <2>1. k \in Task
    BY <1>0, <2>0, TaskNamed
  <2>2. k.op = task[c].op /\ k.past = task[c].past /\ k.person = task[c].person
        /\ k.change = task[c].change
    BY <1>0 DEF Task
  <2>3. task' = [task EXCEPT ![c] = k]
    BY <1>3
  <2> HIDE DEF k
  <2> QED BY <1>1, <2>1, <2>2, <2>3
<1>4. ASSUME NEW o \in SUBSET (People \cup Calls),
             task' = [task EXCEPT ![c].step = "opened", ![c].opened = o]
      PROVE  MovesOn(c)
  <2> DEFINE k == [task[c] EXCEPT !.step = "opened", !.opened = o]
  <2>1. k \in Task
    BY <1>0, TaskOpens
  <2>2. k.op = task[c].op /\ k.past = task[c].past /\ k.person = task[c].person
        /\ k.change = task[c].change
    BY <1>0 DEF Task
  <2>3. task' = [task EXCEPT ![c] = k]
    BY <1>4
  <2> HIDE DEF k
  <2> QED BY <1>1, <2>1, <2>2, <2>3
<1>5. ASSUME Ends(c) PROVE MovesOn(c)
  <2> DEFINE k == [task[c] EXCEPT !.step = "done", !.email = 0, !.change = Nothing, !.opened = {}]
  <2>1. k \in Task
    BY <1>0, TaskEnds
  <2>2. k.op = task[c].op /\ k.past = task[c].past /\ k.person = task[c].person
        /\ k.step = "done"
    BY <1>0 DEF Task
  <2>3. task' = [task EXCEPT ![c] = k]
    BY <1>5 DEF Ends
  <2> HIDE DEF k
  <2> QED BY <1>1, <2>1, <2>2, <2>3
<1>6. ASSUME task[c].op = "bulk" /\ task[c].row < MaxRows, NextRow(c) PROVE MovesOn(c)
  <2> DEFINE k == [task[c] EXCEPT !.step = "naming", !.row = @ + 1, !.email = 0,
                                  !.person = <<c, task[c].row + 1>>, !.opened = {}]
  <2>1. k \in Task
    BY <1>0, <1>6, TaskNextRow
  <2>2. k.op = task[c].op /\ k.past = task[c].past /\ k.change = task[c].change
    BY <1>0 DEF Task
  <2>3. task' = [task EXCEPT ![c] = k]
    BY <1>6 DEF NextRow
  <2> HIDE DEF k
  <2> QED BY <1>1, <1>6, <2>1, <2>2, <2>3
<1> QED BY <1>2, <1>3, <1>4, <1>5, <1>6 DEF NextRow

LEMMA StartsOf ==
  ASSUME DirectoryTypeOK, DocumentsTypeOK, NEW c \in Calls,
         \/ Create(c) \/ BulkCreate(c) \/ CreateLeaveType(c) \/ Update(c) \/ Deactivate(c)
  PROVE  /\ StartsNew(c)
         /\ task'[c].op = "update" =>
              /\ task'[c].person \in employed
              /\ task'[c].change = Nothing \/ Matches(place[task'[c].person], task'[c].change)
<1> DEFINE done == {d \in Calls : Doing(d, "done")}
           new(op, step, e, a, change) ==
             [op |-> op, step |-> step, row |-> 1, person |-> e, email |-> a,
              change |-> change, opened |-> {}, past |-> done]
<1>0. 0 \in 0..Addresses /\ done \in SUBSET Calls /\ <<c, 1>> \in People
      /\ Seed \subseteq People /\ employed \subseteq People /\ 1..Addresses \subseteq 0..Addresses
  BY NewPeople, DirectoryAssumption DEF DocumentsTypeOK
<1>1. ASSUME NEW op \in {"create", "bulk", "type", "update", "deactivate"},
             NEW step \in Moments \ {"done"}, NEW e \in People, NEW a \in 0..Addresses,
             NEW change \in Changes, task[c] = NoTask,
             task' = [task EXCEPT ![c] = new(op, step, e, a, change)]
      PROVE  StartsNew(c) /\ task'[c].op = op /\ task'[c].person = e /\ task'[c].change = change
  <2> HIDE DEF done
  <2>1. new(op, step, e, a, change) \in Task
    BY <1>0, TaskMade
  <2>2. task'[c] = new(op, step, e, a, change) /\ \A d \in Calls \ {c} : task'[d] = task[d]
    BY <1>1 DEF DirectoryTypeOK
  <2> QED BY <1>1, <2>1, <2>2 DEF StartsNew, done
<1>2. ASSUME NEW e \in People, NEW op \in {"bulk", "type", "deactivate"},
             NEW step \in {"naming", "inserted", "validated"}, Begins(c, op, step, e)
      PROVE  StartsNew(c) /\ task'[c].op # "update"
  <2>1. task[c] = NoTask /\ task' = [task EXCEPT ![c] = new(op, step, e, 0, Nothing)]
    BY <1>2 DEF Begins
  <2> HIDE DEF new, done
  <2> QED BY <1>0, <1>1, <1>2, <2>1, NothingChanges DEF Moments
<1>3. CASE Create(c)
  <2>1. PICK a \in 1..Addresses :
          task[c] = NoTask /\ task' = [task EXCEPT ![c] = new("create", "named", <<c, 1>>, a, Nothing)]
    BY <1>3 DEF Create
  <2> HIDE DEF new, done
  <2> QED BY <1>0, <1>1, <2>1, NothingChanges DEF Moments
<1>4. CASE Update(c)
  <2>1. PICK e \in employed, change \in Changes :
          /\ change = Nothing \/ Matches(place[e], change)
          /\ task[c] = NoTask /\ task' = [task EXCEPT ![c] = new("update", "validated", e, 0, change)]
    BY <1>4 DEF Update
  <2> HIDE DEF new, done
  <2>2. StartsNew(c) /\ task'[c].person = e /\ task'[c].change = change
    BY <1>0, <1>1, <2>1 DEF Moments
  <2> QED BY <2>1, <2>2
<1>5. CASE BulkCreate(c)
  BY <1>0, <1>2, <1>5 DEF BulkCreate
<1>6. CASE CreateLeaveType(c)
  BY <1>0, <1>2, <1>6 DEF CreateLeaveType
<1>7. CASE Deactivate(c)
  BY <1>0, <1>2, <1>7 DEF Deactivate
<1> QED BY <1>3, <1>4, <1>5, <1>6, <1>7
LEMMA StepsGoOn ==
  ASSUME DirectoryInv, DocumentsTypeOK, NEW c \in Calls, DirectoryStep(c)
  PROVE  MovesOn(c)
<1>0. DirectoryTypeOK
  BY DEF DirectoryInv
<1>1. task[c] # NoTask /\ task[c].step # "done"
  BY DEF DirectoryStep, Name, Insert, Collide, OpenBalances, CommitEmployee, OpenForStaff,
     CommitType, Lock, DeleteContacts, CommitUpdate, CommitDeactivation, RollBack, Doing
<1>2. {t \in Calls : type[t] = "quota"} \in SUBSET (People \cup Calls)
      /\ OpensFor(c) \in SUBSET (People \cup Calls)
      /\ contacts[task[c].person] \in SUBSET (People \cup Calls)
  BY <1>0, <1>1, TaskBefore DEF OpensFor, DocumentsTypeOK, DirectoryTypeOK
<1>3. \/ \E step \in Moments : Proceeds(c, step)
      \/ \E a \in 1..Addresses : task' = [task EXCEPT ![c].step = "named", ![c].email = a]
      \/ \E o \in SUBSET (People \cup Calls) :
           task' = [task EXCEPT ![c].step = "opened", ![c].opened = o]
      \/ Ends(c) \/ NextRow(c)
  <2>1. CASE Name(c)
    BY <2>1 DEF Name
  <2>2. CASE Insert(c) \/ Lock(c)
    BY <2>2 DEF Insert, Lock, Moments
  <2>3. CASE OpenBalances(c)
    BY <1>2, <2>3 DEF OpenBalances
  <2>4. CASE OpenForStaff(c)
    BY <1>2, <2>4 DEF OpenForStaff
  <2>5. CASE DeleteContacts(c)
    BY <1>2, <2>5 DEF DeleteContacts
  <2>6. CASE Collide(c) \/ CommitEmployee(c) \/ CommitType(c) \/ CommitUpdate(c)
             \/ CommitDeactivation(c) \/ RollBack(c)
    BY <2>6 DEF Collide, CommitEmployee, CommitType, CommitUpdate, CommitDeactivation, RollBack
  <2> QED BY <2>1, <2>2, <2>3, <2>4, <2>5, <2>6 DEF DirectoryStep
<1> QED BY <1>0, <1>1, <1>3, GoesOn

(* What a call noted is done, and stays done. *)
PastInv == \A c, d \in Calls : task[c] # NoTask /\ d \in task[c].past => Doing(d, "done")

OneMoves == UNCHANGED task \/ \E c \in Calls : StartsNew(c) \/ MovesOn(c)

LEMMA StepMoves ==
  ASSUME DirectoryInv, DocumentsTypeOK, [Next]_vars
  PROVE  OneMoves
<1>0. DirectoryTypeOK
  BY DEF DirectoryInv
<1>1. ASSUME NEW c \in Calls, UpdateLeaveType(c) \/ Uploads(c) PROVE UNCHANGED task
  BY <1>1 DEF UpdateLeaveType, Uploads, directory
<1> QED BY <1>0, <1>1, StartsOf, StepsGoOn DEF Next, vars, directory, OneMoves

LEMMA PastStays ==
  ASSUME PastInv, OneMoves
  PROVE  /\ PastInv'
         /\ \A c, d \in Calls : Overlapped(c, d) => Overlapped(c, d)'
         /\ \A c \in Calls : Creates(c) => Creates(c)'
<1>1. CASE UNCHANGED task
  BY <1>1 DEF PastInv, Overlapped, Creates, Doing
<1>2. ASSUME NEW c \in Calls, StartsNew(c) \/ MovesOn(c)
      PROVE  /\ PastInv'
             /\ \A x, y \in Calls : Overlapped(x, y) => Overlapped(x, y)'
             /\ \A x \in Calls : Creates(x) => Creates(x)'
  <2>1. task'[c] # NoTask /\ \A d \in Calls \ {c} : task'[d] = task[d]
    BY <1>2, DirectoryAssumption DEF StartsNew, MovesOn
  <2>2. \A d \in Calls : Doing(d, "done") => Doing(d, "done")'
    BY <1>2, <2>1 DEF Doing, StartsNew, MovesOn
  <2>3. task[c] # NoTask => task'[c].past = task[c].past /\ task'[c].op = task[c].op
    BY <1>2 DEF StartsNew, MovesOn
  <2>4. task[c] = NoTask => task'[c].past = {d \in Calls : Doing(d, "done")}
    BY <1>2, DirectoryAssumption DEF StartsNew, MovesOn
  <2>5. PastInv'
    BY <2>1, <2>2, <2>3, <2>4 DEF PastInv
  <2>6. \A x, y \in Calls : Overlapped(x, y) => Overlapped(x, y)'
    BY <2>1, <2>3 DEF Overlapped
  <2>7. \A x \in Calls : Creates(x) => Creates(x)'
    BY <2>1, <2>3 DEF Creates
  <2> QED BY <2>5, <2>6, <2>7
<1> QED BY <1>1, <1>2 DEF OneMoves

(* A call that is not done is in the past of none. *)
LEMMA NotYetPast ==
  ASSUME PastInv, NEW c \in Calls, ~ Doing(c, "done"), NEW d \in Calls, task[d] # NoTask
  PROVE  c \notin task[d].past
  BY DEF PastInv
-----------------------------------------------------------------------------
(* The organisation: the department and the position of an employee fit, or  *)
(* two updates of the employee ran at once; and what a request asks for fits *)
(* the place it is about to be merged with, or another update of the same    *)
(* employee, which ran at the same time, has come before it.                 *)
Amends(c, e) == task[c] # NoTask /\ task[c].op = "update" /\ task[c].person = e

TwoAmend(e) ==
  \E c, d \in Calls : c # d /\ Amends(c, e) /\ Amends(d, e) /\ Overlapped(c, d)

PlacesFit == \A e \in People : place[e].department = place[e].position \/ TwoAmend(e)

Fits(c, e) ==
  \/ task[c].change = Nothing
  \/ Matches(place[e], task[c].change)
  \/ \E d \in Calls : d # c /\ Amends(d, e) /\ Overlapped(c, d)

ChangesFit == \A c \in Calls, e \in People : Amends(c, e) /\ task[c].step # "done" => Fits(c, e)

OrganisationInv == PlacesFit /\ ChangesFit

LEMMA AmendsStays ==
  ASSUME OneMoves, NEW c \in Calls, NEW e
  PROVE  Amends(c, e) => Amends(c, e)'
  BY DirectoryAssumption DEF OneMoves, StartsNew, MovesOn, Amends

LEMMA SamePlaces ==
  ASSUME DirectoryInv, PastInv, OneMoves, OrganisationInv, UNCHANGED place,
         \A c \in Calls : StartsNew(c) /\ task'[c].op = "update" =>
           \/ task'[c].change = Nothing
           \/ Matches(place[task'[c].person], task'[c].change)
  PROVE  OrganisationInv'
<1>1. \A e \in People : TwoAmend(e) => TwoAmend(e)'
  BY AmendsStays, PastStays DEF TwoAmend
<1>2. PlacesFit'
  BY <1>1 DEF OrganisationInv, PlacesFit
<1>3. ASSUME NEW c \in Calls, NEW e \in People, Amends(c, e)', task'[c].step # "done"
      PROVE  Fits(c, e)'
  <2>1. CASE StartsNew(c)
    BY <1>3, <2>1 DEF Fits, Amends, Matches, Merged
  <2>2. CASE ~ StartsNew(c)
    <3>1. /\ Amends(c, e) /\ task[c].step # "done" /\ task'[c].change = task[c].change
      BY <1>3, <2>2, DirectoryAssumption DEF OneMoves, StartsNew, MovesOn, Amends
    <3>2. Fits(c, e)
      BY <3>1 DEF OrganisationInv, ChangesFit
    <3>3. CASE task[c].change = Nothing \/ Matches(place[e], task[c].change)
      BY <3>1, <3>3 DEF Fits, Matches, Merged, Nothing
    <3>4. CASE \E d \in Calls : d # c /\ Amends(d, e) /\ Overlapped(c, d)
      BY <3>4, AmendsStays, PastStays DEF Fits
    <3> QED BY <3>2, <3>3, <3>4 DEF Fits
  <2> QED BY <2>1, <2>2
<1>4. ChangesFit'
  BY <1>3 DEF ChangesFit
<1> QED BY <1>2, <1>4 DEF OrganisationInv

LEMMA UpdateFits ==
  ASSUME DirectoryInv, DocumentsTypeOK, PastInv, OrganisationInv, NEW c \in Calls, CommitUpdate(c)
  PROVE  OrganisationInv'
<1> PICK e \in People : e = task[c].person
  BY TaskBefore DEF CommitUpdate
<1> DEFINE old == place[e]
           change == task[c].change
<1>0. MovesOn(c) /\ OneMoves
  BY StepsGoOn DEF DirectoryStep, OneMoves
<1>1. /\ task[c] # NoTask /\ task[c].op = "update" /\ task[c].step # "done"
      /\ task'[c] # NoTask /\ task'[c].step = "done" /\ place' = [place EXCEPT ![e] = Merged(old, change)]
  <2>1. /\ task[c] # NoTask /\ task[c].op = "update" /\ task[c].step # "done" /\ Ends(c)
        /\ place' = [place EXCEPT ![e] = Merged(old, change)]
    BY DEF CommitUpdate, Doing
  <2>2. task'[c] # NoTask /\ task'[c].step = "done"
    BY <2>1, Closed, DirectoryAssumption DEF Becomes, DirectoryInv
  <2> QED BY <2>1, <2>2
<1>2. Amends(c, e)
  BY <1>1 DEF Amends
<1> HIDE DEF old, change
<1>3. place'[e] = Merged(old, change) /\ \A x \in People \ {e} : place'[x] = place[x]
  BY <1>1 DEF DirectoryInv, DirectoryTypeOK
<1>4. \A x \in People : TwoAmend(x) => TwoAmend(x)'
  BY <1>0, AmendsStays, PastStays DEF TwoAmend
<1>5. place'[e].department = place'[e].position \/ TwoAmend(e)'
  <2>1. Fits(c, e)
    BY <1>1, <1>2 DEF OrganisationInv, ChangesFit
  <2>2. CASE change = Nothing
    <3>1. place'[e].department = old.department /\ place'[e].position = old.position
      BY <1>3, <2>2 DEF Merged, Nothing
    <3>2. old.department = old.position \/ TwoAmend(e)
      BY <1>1 DEF OrganisationInv, PlacesFit, old
    <3> QED BY <1>1, <1>4, <3>1, <3>2
  <2>3. CASE Matches(old, change)
    BY <1>3, <2>3 DEF Matches
  <2>4. CASE \E d \in Calls : d # c /\ Amends(d, e) /\ Overlapped(c, d)
    <3>1. TwoAmend(e)
      BY <1>2, <2>4 DEF TwoAmend
    <3> QED BY <1>1, <1>4, <3>1
  <2> QED BY <2>1, <2>2, <2>3, <2>4 DEF Fits, old, change
<1>6. PlacesFit'
  BY <1>3, <1>4, <1>5 DEF OrganisationInv, PlacesFit
<1>7. ASSUME NEW d \in Calls, NEW x \in People, Amends(d, x)', task'[d].step # "done"
      PROVE  Fits(d, x)'
  <2>1. d # c /\ task'[d] = task[d] /\ Amends(d, x) /\ task[d].step # "done"
    BY <1>0, <1>1, <1>7 DEF MovesOn, Amends
  <2>2. CASE x = e
    <3>1. Overlapped(d, c)
      BY <1>1, <2>1, NotYetPast DEF Overlapped, Doing, Amends
    <3>2. Overlapped(d, c)' /\ Amends(c, x)'
      BY <1>0, <1>2, <2>2, <3>1, PastStays, AmendsStays
    <3> QED BY <2>1, <3>2 DEF Fits
  <2>3. CASE x # e
    <3>1. Fits(d, x) /\ place'[x] = place[x]
      BY <1>3, <2>1, <2>3 DEF OrganisationInv, ChangesFit
    <3>2. CASE task[d].change = Nothing \/ Matches(place[x], task[d].change)
      BY <2>1, <3>1, <3>2 DEF Fits, Matches, Merged, Nothing
    <3>3. CASE \E b \in Calls : b # d /\ Amends(b, x) /\ Overlapped(d, b)
      BY <1>0, <3>3, AmendsStays, PastStays DEF Fits
    <3> QED BY <3>1, <3>2, <3>3 DEF Fits
  <2> QED BY <2>2, <2>3
<1> QED BY <1>6, <1>7 DEF OrganisationInv, ChangesFit

LEMMA StepOrganisation ==
  ASSUME DirectoryInv, DocumentsTypeOK, PastInv, OrganisationInv, [Next]_vars
  PROVE  PastInv' /\ OrganisationInv'
<1>0. DirectoryTypeOK /\ OneMoves
  BY StepMoves DEF DirectoryInv
<1>1. ASSUME NEW c \in Calls, CommitUpdate(c) PROVE OrganisationInv'
  BY <1>1, UpdateFits
<1>2. ASSUME NEW c \in Calls,
             \/ Create(c) \/ BulkCreate(c) \/ CreateLeaveType(c) \/ Update(c) \/ Deactivate(c)
      PROVE  OrganisationInv'
  <2>1. /\ StartsNew(c)
        /\ task'[c].op = "update" =>
             task'[c].change = Nothing \/ Matches(place[task'[c].person], task'[c].change)
    BY <1>0, <1>2, StartsOf
  <2>2. UNCHANGED place
    BY <1>2 DEF Create, BulkCreate, CreateLeaveType, Update, Deactivate, Begins
  <2>3. \A d \in Calls : StartsNew(d) => d = c
    BY <2>1, DirectoryAssumption DEF StartsNew
  <2> QED BY <1>0, <2>1, <2>2, <2>3, SamePlaces
<1>3. ASSUME UNCHANGED place, \A c \in Calls : ~ StartsNew(c) PROVE OrganisationInv'
  BY <1>0, <1>3, SamePlaces
<1>4. ASSUME NEW c \in Calls, DirectoryStep(c), ~ CommitUpdate(c) PROVE OrganisationInv'
  <2>1. UNCHANGED place
    BY <1>4 DEF DirectoryStep, Name, Insert, Collide, OpenBalances, CommitEmployee, OpenForStaff,
       CommitType, Lock, DeleteContacts, CommitDeactivation, RollBack
  <2>2. \A d \in Calls : ~ StartsNew(d)
    BY <1>4, StepsGoOn, DirectoryAssumption DEF StartsNew, MovesOn
  <2> QED BY <1>3, <2>1, <2>2
<1>5. ASSUME UNCHANGED <<place, task>> PROVE OrganisationInv'
  <2>1. \A d \in Calls : ~ StartsNew(d)
    BY <1>5, DirectoryAssumption DEF StartsNew
  <2> QED BY <1>3, <1>5, <2>1
<1>6. OrganisationInv'
  BY <1>1, <1>2, <1>4, <1>5 DEF Next, UpdateLeaveType, Uploads, directory, vars
<1> QED BY <1>0, <1>6, PastStays

LEMMA InitOrganisation == Init => PastInv /\ OrganisationInv
<1> SUFFICES ASSUME Init PROVE PastInv /\ OrganisationInv
  OBVIOUS
<1>1. PICK d \in Departments : place = [e \in People |-> [department |-> d, position |-> d]]
  BY DEF Init
<1>2. \A c \in Calls : task[c] = NoTask
  BY DEF Init
<1> QED BY <1>1, <1>2 DEF PastInv, OrganisationInv, PlacesFit, ChangesFit, Amends

(* The department and the position of an employee fit each other, unless two *)
(* updates of this employee ran at once, each of which checked its half      *)
(* against the row that was there before the other.                          *)
THEOREM OrganisationKept == Spec => []OrganisationHolds
<1>1. DirectoryInv /\ FilesInv /\ PastInv /\ OrganisationInv /\ [Next]_vars =>
        PastInv' /\ OrganisationInv'
  BY StepOrganisation DEF FilesInv
<1>2. Spec => [](PastInv /\ OrganisationInv)
  BY <1>1, RecordsHold, InitOrganisation, PTL DEF Spec
<1>3. FilesInv /\ OrganisationInv => OrganisationHolds
  BY DEF FilesInv, DocumentsTypeOK, OrganisationInv, PlacesFit, TwoAmend, Amends, OrganisationHolds
<1> QED BY <1>2, <1>3, RecordsHold, PTL
-----------------------------------------------------------------------------
(* The balances.  A type that has opened the balances of the staff has all   *)
(* of the staff but those whose creation it ran beside; a creation that has  *)
(* opened its balances has all the types but those it ran beside.            *)
TypesMade == \A t \in Calls : type[t] # "none" => Doing(t, "done") /\ task[t].op = "type"

Hired(c, e) == Creates(c) /\ \E row \in 1..MaxRows : e = <<c, row>>

StaffOpened ==
  \A t \in Calls, e \in employed : Doing(t, "opened") /\ task[t].op = "type" =>
    e \in task[t].opened \/ \E c \in Calls : Hired(c, e) /\ c \notin task[t].past

QuotasOpened ==
  \A c \in Calls, t \in Calls \ edited : Creates(c) /\ Doing(c, "opened") /\ type[t] = "quota" =>
    t \in task[c].opened \/ t \notin task[c].past

AllOpened ==
  \A e \in employed, t \in Calls \ edited : type[t] = "quota" =>
    <<e, t>> \in balance \/ \E c \in Calls : Hired(c, e) /\ Overlapped(c, t)

BalancesInv == TypesMade /\ StaffOpened /\ QuotasOpened /\ AllOpened

LEMMA HiredStays ==
  ASSUME PastInv, OneMoves, NEW c \in Calls, NEW e
  PROVE  Hired(c, e) => Hired(c, e)'
  BY PastStays DEF Hired

(* A call that has not moved has what it had. *)
LEMMA OthersStay ==
  ASSUME NEW c \in Calls, \A d \in Calls \ {c} : task'[d] = task[d],
         NEW d \in Calls, d # c
  PROVE  /\ Creates(d)' <=> Creates(d)
         /\ \A step : Doing(d, step)' <=> Doing(d, step)
  BY DEF Creates, Doing

LEMMA TypesMadeStay ==
  ASSUME OneMoves, TypesMade, \A t \in Calls : type'[t] # "none" => type[t] # "none"
  PROVE  TypesMade'
<1>1. ASSUME NEW t \in Calls, Doing(t, "done"), task[t].op = "type"
      PROVE  Doing(t, "done")' /\ task'[t].op = "type"
  BY <1>1, DirectoryAssumption DEF OneMoves, StartsNew, MovesOn, Doing
<1> QED BY <1>1 DEF TypesMade

(* Nothing is hired and no type made, and no call has opened its balances. *)
LEMMA QuietBalances ==
  ASSUME PastInv, OneMoves, BalancesInv, employed' \subseteq employed,
         UNCHANGED <<type, balance, edited>>,
         \A c \in Calls : Doing(c, "opened")' /\ task'[c].op \in {"create", "bulk", "type"} =>
           task'[c] = task[c]
  PROVE  BalancesInv'
<1>1. TypesMade'
  BY TypesMadeStay DEF BalancesInv
<1>2. AllOpened'
  BY PastStays, HiredStays DEF BalancesInv, AllOpened
<1>3. StaffOpened'
  <2> SUFFICES ASSUME NEW t \in Calls, NEW e \in employed', Doing(t, "opened")',
                      task'[t].op = "type"
               PROVE  e \in task'[t].opened \/ \E c \in Calls : Hired(c, e)' /\ c \notin task'[t].past
    BY DEF StaffOpened
  <2>1. task'[t] = task[t] /\ Doing(t, "opened") /\ e \in employed
    BY DEF Doing
  <2> QED BY <2>1, HiredStays DEF BalancesInv, StaffOpened
<1>4. QuotasOpened'
  <2> SUFFICES ASSUME NEW c \in Calls, NEW t \in Calls \ edited, Creates(c)', Doing(c, "opened")',
                      type[t] = "quota"
               PROVE  t \in task'[c].opened \/ t \notin task'[c].past
    BY DEF QuotasOpened
  <2>1. task'[c] = task[c] /\ Doing(c, "opened") /\ Creates(c)
    BY DEF Doing, Creates
  <2> QED BY <2>1 DEF BalancesInv, QuotasOpened
<1> QED BY <1>1, <1>2, <1>3, <1>4 DEF BalancesInv

LEMMA OpensBalances ==
  ASSUME DirectoryInv, DocumentsTypeOK, PastInv, BalancesInv, NEW c \in Calls,
         OpenBalances(c) \/ OpenForStaff(c)
  PROVE  BalancesInv'
<1>0. MovesOn(c) /\ OneMoves /\ UNCHANGED <<type, balance, edited, employed>>
  BY StepsGoOn DEF DirectoryStep, OneMoves, OpenBalances, OpenForStaff, documents
<1>1. TypesMade' /\ AllOpened'
  BY <1>0, TypesMadeStay, PastStays, HiredStays DEF BalancesInv, AllOpened
<1>2. \A d \in Calls \ {c} : task'[d] = task[d]
  BY <1>0 DEF MovesOn
<1>3. /\ task[c] \in Task /\ task[c] # NoTask
      /\ task'[c].opened = IF task[c].op = "type" THEN employed ELSE {t \in Calls : type[t] = "quota"}
  <2>1. task[c] \in Task /\ task[c] # NoTask
    BY <1>0 DEF OpenBalances, OpenForStaff, Creates, Doing, MovesOn
  <2>2. CASE OpenBalances(c)
    <3>1. task'[c] = [task[c] EXCEPT !.step = "opened", !.opened = {t \in Calls : type[t] = "quota"}]
      BY <2>2 DEF OpenBalances, DirectoryInv, DirectoryTypeOK
    <3>2. task[c].op # "type"
      BY <2>2 DEF OpenBalances, Creates
    <3> QED BY <2>1, <3>1, <3>2 DEF Task
  <2>3. CASE OpenForStaff(c)
    <3>1. task'[c] = [task[c] EXCEPT !.step = "opened", !.opened = employed]
      BY <2>3 DEF OpenForStaff, OpensFor, DirectoryInv, DirectoryTypeOK
    <3>2. task[c].op = "type"
      BY <2>3 DEF OpenForStaff
    <3> QED BY <2>1, <3>1, <3>2 DEF Task
  <2> QED BY <2>1, <2>2, <2>3
<1>4. StaffOpened'
  <2> SUFFICES ASSUME NEW t \in Calls, NEW e \in employed, Doing(t, "opened")',
                      task'[t].op = "type"
               PROVE  e \in task'[t].opened \/ \E d \in Calls : Hired(d, e)' /\ d \notin task'[t].past
    BY <1>0 DEF StaffOpened
  <2>1. CASE t = c
    BY <1>0, <1>3, <2>1 DEF MovesOn
  <2>2. CASE t # c
    <3>1. task'[t] = task[t] /\ Doing(t, "opened")
      BY <1>2, <2>2 DEF Doing
    <3> QED BY <1>0, <3>1, HiredStays DEF BalancesInv, StaffOpened
  <2> QED BY <2>1, <2>2
<1>5. QuotasOpened'
  <2> SUFFICES ASSUME NEW d \in Calls, NEW t \in Calls \ edited, Creates(d)', Doing(d, "opened")',
                      type[t] = "quota"
               PROVE  t \in task'[d].opened \/ t \notin task'[d].past
    BY <1>0 DEF QuotasOpened
  <2>1. CASE d = c
    <3>1. task[c].op # "type"
      BY <1>0, <2>1 DEF MovesOn, Creates
    <3> QED BY <1>3, <2>1, <3>1
  <2>2. CASE d # c
    BY <1>2, <2>2, OthersStay DEF BalancesInv, QuotasOpened
  <2> QED BY <2>1, <2>2
<1> QED BY <1>1, <1>4, <1>5 DEF BalancesInv

LEMMA HireOpens ==
  ASSUME DirectoryInv, DocumentsTypeOK, PastInv, BalancesInv, NEW c \in Calls, CommitEmployee(c)
  PROVE  BalancesInv'
<1>0. MovesOn(c) /\ OneMoves /\ UNCHANGED <<type, edited>>
  BY StepsGoOn DEF DirectoryStep, OneMoves, CommitEmployee
<1>1. /\ task[c] # NoTask /\ Creates(c) /\ Doing(c, "opened") /\ ~ Doing(c, "done")
      /\ task[c].op # "type"
  BY DEF CommitEmployee, Creates, Doing
<1>2. PICK e : /\ e = task[c].person /\ employed' = employed \cup {e}
               /\ balance' = balance \cup ({e} \X task[c].opened)
  BY DEF CommitEmployee
<1>3. Hired(c, e) /\ Hired(c, e)'
  <2>1. e = <<c, task[c].row>> /\ task[c].row \in 1..MaxRows
    BY <1>1, <1>2, TaskBefore DEF Creates, Doing
  <2>2. Hired(c, e)
    BY <1>1, <2>1 DEF Hired
  <2> QED BY <1>0, <2>2, HiredStays
<1>4. \A d \in Calls \ {c} : task'[d] = task[d]
  BY <1>0 DEF MovesOn
<1>5. ~ Doing(c, "opened")'
  BY <1>1, NextRowTaken DEF CommitEmployee, DirectoryInv, Becomes, Doing
<1>6. TypesMade'
  BY <1>0, TypesMadeStay DEF BalancesInv
<1>7. StaffOpened'
  <2> SUFFICES ASSUME NEW t \in Calls, NEW x \in employed', Doing(t, "opened")',
                      task'[t].op = "type"
               PROVE  x \in task'[t].opened \/ \E d \in Calls : Hired(d, x)' /\ d \notin task'[t].past
    BY DEF StaffOpened
  <2>1. t # c /\ task'[t] = task[t] /\ Doing(t, "opened")
    BY <1>4, <1>5 DEF Doing
  <2>2. CASE x = e
    BY <1>1, <1>3, <2>1, <2>2, NotYetPast DEF Doing
  <2>3. CASE x # e
    BY <1>0, <1>2, <2>1, <2>3, HiredStays DEF BalancesInv, StaffOpened
  <2> QED BY <2>2, <2>3
<1>8. QuotasOpened'
  <2> SUFFICES ASSUME NEW d \in Calls, NEW t \in Calls \ edited, Creates(d)', Doing(d, "opened")',
                      type[t] = "quota"
               PROVE  t \in task'[d].opened \/ t \notin task'[d].past
    BY <1>0 DEF QuotasOpened
  <2>1. d # c
    BY <1>5
  <2> QED BY <1>4, <2>1, OthersStay DEF BalancesInv, QuotasOpened
<1>9. AllOpened'
  <2> SUFFICES ASSUME NEW x \in employed', NEW t \in Calls \ edited, type[t] = "quota"
               PROVE  <<x, t>> \in balance' \/ \E d \in Calls : Hired(d, x)' /\ Overlapped(d, t)'
    BY <1>0 DEF AllOpened
  <2>1. CASE x = e
    <3>1. t \in task[c].opened \/ t \notin task[c].past
      BY <1>1 DEF BalancesInv, QuotasOpened
    <3>2. CASE t \in task[c].opened
      BY <1>2, <2>1, <3>2
    <3>3. CASE t \notin task[c].past
      <4>1. task[t] # NoTask
        BY DEF BalancesInv, TypesMade, Doing
      <4>2. Overlapped(c, t)
        BY <1>1, <3>3, <4>1, NotYetPast DEF Overlapped
      <4> QED BY <1>0, <1>3, <2>1, <4>2, PastStays
    <3> QED BY <3>1, <3>2, <3>3
  <2>2. CASE x # e
    <3>1. <<x, t>> \in balance \/ \E d \in Calls : Hired(d, x) /\ Overlapped(d, t)
      BY <1>2, <2>2 DEF BalancesInv, AllOpened
    <3> QED BY <1>0, <1>2, <3>1, HiredStays, PastStays
  <2> QED BY <2>1, <2>2
<1> QED BY <1>6, <1>7, <1>8, <1>9 DEF BalancesInv

LEMMA TypeOpens ==
  ASSUME DirectoryInv, DocumentsTypeOK, PastInv, BalancesInv, NEW c \in Calls, CommitType(c)
  PROVE  BalancesInv'
<1>0. MovesOn(c) /\ OneMoves /\ UNCHANGED <<edited, employed>>
  BY StepsGoOn DEF DirectoryStep, OneMoves, CommitType, documents
<1>1. /\ task[c] # NoTask /\ task[c].op = "type" /\ ~ Doing(c, "done") /\ Ends(c)
      /\ balance' = balance \cup (task[c].opened \X {c})
      /\ \A t \in Calls \ {c} : type'[t] = type[t]
      /\ type'[c] = "quota" => Doing(c, "opened")
  <2>1. type \in [Calls -> {"none", "quota", "free"}]
    BY DEF DirectoryInv, DirectoryTypeOK
  <2> QED BY <2>1 DEF CommitType, Doing
<1>2. Doing(c, "done")' /\ task'[c].op = "type"
  BY <1>0, <1>1, Closed, DirectoryAssumption DEF DirectoryInv, Becomes, Doing, MovesOn
<1>3. \A d \in Calls \ {c} : task'[d] = task[d]
  BY <1>0 DEF MovesOn
<1>4. TypesMade'
  BY <1>1, <1>2, <1>3, OthersStay DEF BalancesInv, TypesMade
<1>5. StaffOpened'
  <2> SUFFICES ASSUME NEW t \in Calls, NEW x \in employed, Doing(t, "opened")',
                      task'[t].op = "type"
               PROVE  x \in task'[t].opened \/ \E d \in Calls : Hired(d, x)' /\ d \notin task'[t].past
    BY <1>0 DEF StaffOpened
  <2>1. t # c /\ task'[t] = task[t] /\ Doing(t, "opened")
    BY <1>2, <1>3 DEF Doing
  <2> QED BY <1>0, <2>1, HiredStays DEF BalancesInv, StaffOpened
<1>6. QuotasOpened'
  <2> SUFFICES ASSUME NEW d \in Calls, NEW t \in Calls \ edited, Creates(d)', Doing(d, "opened")',
                      type'[t] = "quota"
               PROVE  t \in task'[d].opened \/ t \notin task'[d].past
    BY <1>0 DEF QuotasOpened
  <2>1. d # c /\ task'[d] = task[d] /\ Creates(d) /\ Doing(d, "opened")
    BY <1>2, <1>3 DEF Doing, Creates
  <2>2. CASE t = c
    BY <1>1, <2>1, <2>2, NotYetPast DEF Doing
  <2>3. CASE t # c
    BY <1>1, <2>1, <2>3 DEF BalancesInv, QuotasOpened
  <2> QED BY <2>2, <2>3
<1>7. AllOpened'
  <2> SUFFICES ASSUME NEW x \in employed, NEW t \in Calls \ edited, type'[t] = "quota"
               PROVE  <<x, t>> \in balance' \/ \E d \in Calls : Hired(d, x)' /\ Overlapped(d, t)'
    BY <1>0 DEF AllOpened
  <2>1. CASE t = c
    <3>1. x \in task[c].opened \/ \E d \in Calls : Hired(d, x) /\ d \notin task[c].past
      BY <1>1, <2>1 DEF BalancesInv, StaffOpened
    <3>2. CASE x \in task[c].opened
      BY <1>1, <2>1, <3>2
    <3>3. ASSUME NEW d \in Calls, Hired(d, x), d \notin task[c].past
          PROVE  Hired(d, x)' /\ Overlapped(d, t)'
      <4>1. task[d] # NoTask
        BY <3>3 DEF Hired, Creates
      <4>2. Overlapped(d, c)
        BY <1>1, <3>3, <4>1, NotYetPast DEF Overlapped
      <4> QED BY <1>0, <2>1, <3>3, <4>2, HiredStays, PastStays
    <3> QED BY <3>1, <3>2, <3>3
  <2>2. CASE t # c
    <3>1. <<x, t>> \in balance \/ \E d \in Calls : Hired(d, x) /\ Overlapped(d, t)
      BY <1>1, <2>2 DEF BalancesInv, AllOpened
    <3> QED BY <1>0, <1>1, <3>1, HiredStays, PastStays
  <2> QED BY <2>1, <2>2
<1> QED BY <1>4, <1>5, <1>6, <1>7 DEF BalancesInv

(* Only a creation, a new type and an update ever open anything. *)
LEMMA BeginsUnopened ==
  ASSUME DirectoryTypeOK, NEW c \in Calls,
         \/ Create(c) \/ BulkCreate(c) \/ CreateLeaveType(c) \/ Update(c) \/ Deactivate(c)
  PROVE  task'[c].step # "opened"
<1>1. task \in [Calls -> Task \cup {NoTask}]
  BY DEF DirectoryTypeOK
<1> QED BY <1>1 DEF Create, BulkCreate, CreateLeaveType, Update, Deactivate, Begins

LEMMA StepUnopened ==
  ASSUME DirectoryTypeOK, NEW c \in Calls,
         \/ Name(c) \/ Insert(c) \/ Collide(c) \/ Lock(c) \/ DeleteContacts(c)
         \/ CommitUpdate(c) \/ CommitDeactivation(c) \/ RollBack(c)
  PROVE  task'[c].step = "opened" => task'[c].op = "update"
<1>0. task[c] \in Task /\ task[c] # NoTask
  BY DEF DirectoryTypeOK, Name, Insert, Collide, Lock, DeleteContacts, CommitUpdate,
     CommitDeactivation, RollBack, Doing
<1>1. CASE Ends(c) \/ NextRow(c)
  BY <1>0, <1>1, Closed, NextRowTaken DEF Becomes
<1>2. CASE Insert(c) \/ Lock(c)
  BY <1>0, <1>1, <1>2, Proceeded DEF Insert, Lock, Becomes, Moments
<1>3. CASE DeleteContacts(c)
  <2>1. task'[c] = [task[c] EXCEPT !.step = "opened", !.opened = contacts[task[c].person]]
    BY <1>3 DEF DeleteContacts, DirectoryTypeOK
  <2>2. task'[c].op = task[c].op
    BY <1>0, <2>1 DEF Task
  <2> QED BY <1>3, <2>2 DEF DeleteContacts
<1>4. CASE Name(c)
  BY <1>4, Named DEF Becomes, Name
<1> QED BY <1>1, <1>2, <1>3, <1>4 DEF Collide, CommitUpdate, CommitDeactivation, RollBack

LEMMA StepBalances ==
  ASSUME DirectoryInv, DocumentsTypeOK, PastInv, BalancesInv, [Next]_vars
  PROVE  BalancesInv'
<1>0. DirectoryTypeOK /\ OneMoves
  BY StepMoves DEF DirectoryInv
<1>1. ASSUME NEW c \in Calls,
             \/ Create(c) \/ BulkCreate(c) \/ CreateLeaveType(c) \/ Update(c) \/ Deactivate(c)
      PROVE  BalancesInv'
  <2>1. UNCHANGED <<type, balance, edited, employed>>
    BY <1>1 DEF Create, BulkCreate, CreateLeaveType, Update, Deactivate, Begins, documents
  <2>2. task'[c].step # "opened"
    BY <1>1, <1>0, BeginsUnopened
  <2>3. \A d \in Calls \ {c} : task'[d] = task[d]
    BY <1>0, <1>1, StartsOf DEF StartsNew
  <2> QED BY <1>0, <2>1, <2>2, <2>3, QuietBalances DEF Doing
<1>2. ASSUME NEW c \in Calls,
             \/ Name(c) \/ Insert(c) \/ Collide(c) \/ Lock(c) \/ DeleteContacts(c)
             \/ CommitUpdate(c) \/ CommitDeactivation(c) \/ RollBack(c)
      PROVE  BalancesInv'
  <2>1. employed' \subseteq employed /\ UNCHANGED <<type, balance, edited>>
    BY <1>2 DEF Name, Insert, Collide, Lock, DeleteContacts, CommitUpdate, CommitDeactivation,
       RollBack, documents
  <2>2. MovesOn(c)
    BY <1>2, StepsGoOn DEF DirectoryStep
  <2>3. task'[c].step = "opened" => task'[c].op = "update"
    BY <1>0, <1>2, StepUnopened
  <2> QED BY <1>0, <2>1, <2>2, <2>3, QuietBalances DEF Doing, MovesOn
<1>3. ASSUME NEW c \in Calls, UpdateLeaveType(c) PROVE BalancesInv'
  <2>1. /\ UNCHANGED <<balance, task, employed>> /\ edited' = edited \cup {c} /\ type[c] # "none"
        /\ \A t \in Calls \ {c} : type'[t] = type[t]
    BY <1>0, <1>3 DEF UpdateLeaveType, documents, DirectoryTypeOK
  <2>2. TypesMade'
    BY <2>1 DEF BalancesInv, TypesMade, Doing
  <2>3. StaffOpened'
    BY <2>1 DEF BalancesInv, StaffOpened, Doing, Hired, Creates
  <2>4. QuotasOpened'
    BY <2>1 DEF BalancesInv, QuotasOpened, Doing, Creates
  <2>5. AllOpened'
    BY <2>1 DEF BalancesInv, AllOpened, Hired, Creates, Overlapped
  <2> QED BY <2>2, <2>3, <2>4, <2>5 DEF BalancesInv
<1>4. ASSUME UNCHANGED <<directory, employed>> PROVE BalancesInv'
  BY <1>0, <1>4, QuietBalances DEF directory
<1>5. ASSUME NEW c \in Calls, Uploads(c) PROVE UNCHANGED <<directory, employed>>
  BY <1>5, UploadsOnly
<1>6. ASSUME NEW c \in Calls, DirectoryStep(c) PROVE BalancesInv'
  BY <1>2, <1>6, OpensBalances, HireOpens, TypeOpens DEF DirectoryStep
<1> QED BY <1>1, <1>3, <1>4, <1>5, <1>6 DEF Next, vars, documents, OfferDocumentType

LEMMA InitBalances == Init => BalancesInv
  BY DEF Init, BalancesInv, TypesMade, StaffOpened, QuotasOpened, AllOpened, Doing, Creates

(* Every employee has a balance of every type that grants a quota, but of    *)
(* one whose creation ran beside the creation of the employee, and of one    *)
(* that was edited, for any staff, types and calls.                          *)
THEOREM BalancesAreOpened == Spec => []BalancesOpened
<1>1. DirectoryInv /\ FilesInv /\ PastInv /\ BalancesInv /\ [Next]_vars => BalancesInv'
  BY StepBalances DEF FilesInv
<1>2. DirectoryInv /\ FilesInv /\ PastInv /\ OrganisationInv /\ [Next]_vars =>
        PastInv' /\ OrganisationInv'
  BY StepOrganisation DEF FilesInv
<1>3. Spec => []BalancesInv
  BY <1>1, <1>2, RecordsHold, InitOrganisation, InitBalances, PTL DEF Spec
<1>4. BalancesInv => BalancesOpened
  BY DEF BalancesInv, AllOpened, BalancesOpened, Hired
<1> QED BY <1>3, <1>4, PTL
-----------------------------------------------------------------------------
(* The unique key: a creation that has inserted its user holds an address    *)
(* that nobody has, and holds it alone until it commits or rolls back.       *)
Holds(c) == Creates(c) /\ (Doing(c, "inserted") \/ Doing(c, "opened"))

HeldFree == \A c \in Calls : Holds(c) => ~ Taken(task[c].email)
HeldOnce == \A c, d \in Calls :
              Holds(c) /\ Holds(d) /\ task[c].email = task[d].email => c = d

AddressInv == AddressesDistinct /\ HeldFree /\ HeldOnce

(* No address is given, and who holds one held the same before. *)
LEMMA QuietAddresses ==
  ASSUME AddressInv, email' = email,
         \A c \in Calls : Holds(c)' => Holds(c) /\ task'[c].email = task[c].email
  PROVE  AddressInv'
<1>1. AddressesDistinct'
  BY DEF AddressInv, AddressesDistinct
<1>2. HeldFree'
  BY DEF AddressInv, HeldFree, Taken
<1>3. HeldOnce'
  BY DEF AddressInv, HeldOnce
<1> QED BY <1>1, <1>2, <1>3 DEF AddressInv

LEMMA BeginsUnheld ==
  ASSUME DirectoryTypeOK, NEW c \in Calls,
         \/ Create(c) \/ BulkCreate(c) \/ CreateLeaveType(c) \/ Update(c) \/ Deactivate(c)
  PROVE  ~ Holds(c)'
<1>1. task \in [Calls -> Task \cup {NoTask}]
  BY DEF DirectoryTypeOK
<1> QED BY <1>1 DEF Create, BulkCreate, CreateLeaveType, Update, Deactivate, Begins, Holds, Creates, Doing

LEMMA StepUnheld ==
  ASSUME DirectoryTypeOK, NEW c \in Calls,
         \/ Name(c) \/ Collide(c) \/ CommitEmployee(c) \/ OpenForStaff(c) \/ CommitType(c)
         \/ Lock(c) \/ DeleteContacts(c) \/ CommitUpdate(c) \/ CommitDeactivation(c) \/ RollBack(c)
  PROVE  ~ Holds(c)'
<1>0. task[c] \in Task /\ task[c] # NoTask
  BY DEF DirectoryTypeOK, Name, Collide, CommitEmployee, OpenForStaff, CommitType, Lock,
     DeleteContacts, CommitUpdate, CommitDeactivation, RollBack, Creates, Doing
<1>1. CASE Ends(c) \/ NextRow(c)
  BY <1>0, <1>1, Closed, NextRowTaken DEF Becomes, Holds, Doing
<1>2. CASE Lock(c)
  BY <1>0, <1>1, <1>2, Proceeded DEF Lock, Becomes, Moments, Holds, Doing
<1>3. CASE OpenForStaff(c) \/ DeleteContacts(c)
  <2>1. \E o : task' = [task EXCEPT ![c] = [task[c] EXCEPT !.step = "opened", !.opened = o]]
    BY <1>3 DEF OpenForStaff, DeleteContacts
  <2>2. task'[c].op = task[c].op
    BY <1>0, <2>1 DEF DirectoryTypeOK, Task
  <2> QED BY <1>3, <2>2 DEF OpenForStaff, DeleteContacts, Holds, Creates
<1>4. CASE Name(c)
  BY <1>4, Named DEF Becomes, Holds, Doing
<1> QED BY <1>1, <1>2, <1>3, <1>4
        DEF Collide, CommitEmployee, CommitType, CommitUpdate, CommitDeactivation, RollBack

LEMMA StepHolds ==
  ASSUME DirectoryTypeOK, NEW c \in Calls, Insert(c) \/ OpenBalances(c)
  PROVE  task'[c].email = task[c].email
<1>0. task[c] \in Task /\ task \in [Calls -> Task \cup {NoTask}]
  BY DEF DirectoryTypeOK, Insert, OpenBalances, Creates, Doing
<1>1. CASE Insert(c)
  <2>1. task'[c] = [task[c] EXCEPT !.step = "inserted"]
    BY <1>0, <1>1 DEF Insert, Proceeds
  <2> QED BY <1>0, <2>1 DEF Task
<1>2. CASE OpenBalances(c)
  <2>1. task'[c] = [task[c] EXCEPT !.step = "opened", !.opened = {t \in Calls : type[t] = "quota"}]
    BY <1>0, <1>2 DEF OpenBalances
  <2> QED BY <1>0, <2>1 DEF Task
<1> QED BY <1>1, <1>2

LEMMA InsertsAddress ==
  ASSUME DirectoryTypeOK, AddressInv, NEW c \in Calls, Insert(c),
         \A d \in Calls \ {c} : task'[d] = task[d]
  PROVE  AddressInv'
<1>1. email' = email /\ ~ Taken(task[c].email) /\ ~ Held(task[c].email)
  BY DEF Insert
<1>2. task'[c].email = task[c].email
  BY StepHolds
<1>3. \A d \in Calls \ {c} : Holds(d)' => Holds(d) /\ task[d].email # task[c].email
  BY <1>1 DEF Holds, Held, Creates, Doing
<1>4. AddressesDistinct'
  BY <1>1 DEF AddressInv, AddressesDistinct
<1>5. HeldFree'
  BY <1>1, <1>2, <1>3 DEF AddressInv, HeldFree, Taken
<1>6. HeldOnce'
  BY <1>2, <1>3 DEF AddressInv, HeldOnce
<1> QED BY <1>4, <1>5, <1>6 DEF AddressInv

LEMMA HireTakesAddress ==
  ASSUME DirectoryInv, AddressInv, NEW c \in Calls, CommitEmployee(c),
         \A d \in Calls \ {c} : task'[d] = task[d]
  PROVE  AddressInv'
<1>0. DirectoryTypeOK
  BY DEF DirectoryInv
<1>1. Holds(c) /\ ~ Holds(c)'
  BY <1>0, StepUnheld DEF CommitEmployee, Holds
<1>2. task[c].person \in People /\ email' = [email EXCEPT ![task[c].person] = task[c].email]
  BY TaskBefore DEF CommitEmployee, Creates
<1>3. ~ Taken(task[c].email)
  BY <1>1 DEF AddressInv, HeldFree
<1>4. \A e \in People : email'[e] = IF e = task[c].person THEN task[c].email ELSE email[e]
  BY <1>0, <1>2 DEF DirectoryTypeOK
<1>5. AddressesDistinct'
  BY <1>3, <1>4 DEF AddressInv, AddressesDistinct, Taken
<1>6. \A d \in Calls : Holds(d)' => d # c /\ Holds(d) /\ task'[d] = task[d]
  BY <1>1 DEF Holds, Creates, Doing
<1>7. HeldFree'
  <2> SUFFICES ASSUME NEW d \in Calls, Holds(d)', NEW e \in People
               PROVE  email'[e] # task'[d].email
    BY DEF HeldFree, Taken
  <2>1. task[d].email # task[c].email /\ ~ Taken(task[d].email)
    BY <1>1, <1>6 DEF AddressInv, HeldOnce, HeldFree
  <2> QED BY <1>4, <1>6, <2>1 DEF Taken
<1>8. HeldOnce'
  BY <1>6 DEF AddressInv, HeldOnce
<1> QED BY <1>5, <1>7, <1>8 DEF AddressInv

LEMMA StepAddresses ==
  ASSUME DirectoryInv, DocumentsTypeOK, AddressInv, [Next]_vars
  PROVE  AddressInv'
<1>0. DirectoryTypeOK
  BY DEF DirectoryInv
<1>1. ASSUME NEW c \in Calls,
             \/ Create(c) \/ BulkCreate(c) \/ CreateLeaveType(c) \/ Update(c) \/ Deactivate(c)
      PROVE  AddressInv'
  <2>1. email' = email
    BY <1>1 DEF Create, BulkCreate, CreateLeaveType, Update, Deactivate, Begins
  <2>2. ~ Holds(c)' /\ \A d \in Calls \ {c} : task'[d] = task[d]
    BY <1>0, <1>1, BeginsUnheld, StartsOf DEF StartsNew
  <2> QED BY <2>1, <2>2, QuietAddresses DEF Holds, Creates, Doing
<1>2. ASSUME NEW c \in Calls, DirectoryStep(c) PROVE AddressInv'
  <2>1. \A d \in Calls \ {c} : task'[d] = task[d]
    BY <1>2, StepsGoOn DEF MovesOn
  <2>2. CASE OpenBalances(c)
    <3>1. email' = email /\ Holds(c) /\ task'[c].email = task[c].email
      BY <1>0, <2>2, StepHolds DEF OpenBalances, Holds
    <3> QED BY <2>1, <3>1, QuietAddresses DEF Holds, Creates, Doing
  <2>3. CASE \/ Name(c) \/ Collide(c) \/ OpenForStaff(c) \/ CommitType(c) \/ Lock(c)
             \/ DeleteContacts(c) \/ CommitUpdate(c) \/ CommitDeactivation(c) \/ RollBack(c)
    <3>1. email' = email
      BY <2>3 DEF Name, Collide, OpenForStaff, CommitType, Lock, DeleteContacts, CommitUpdate,
         CommitDeactivation, RollBack
    <3>2. ~ Holds(c)'
      BY <1>0, <2>3, StepUnheld
    <3> QED BY <2>1, <3>1, <3>2, QuietAddresses DEF Holds, Creates, Doing
  <2> QED BY <1>0, <1>2, <2>1, <2>2, <2>3, InsertsAddress, HireTakesAddress DEF DirectoryStep
<1>3. ASSUME UNCHANGED <<email, task>> PROVE AddressInv'
  BY <1>3, QuietAddresses DEF Holds, Creates, Doing
<1>4. ASSUME NEW c \in Calls, UpdateLeaveType(c) \/ Uploads(c) PROVE UNCHANGED <<email, task>>
  BY <1>4 DEF UpdateLeaveType, Uploads, directory
<1> QED BY <1>1, <1>2, <1>3, <1>4 DEF Next, vars, directory

(* However many creations run at once, single and in bulk, no two employees  *)
(* have one address.                                                         *)
THEOREM AddressesStayDistinct == Spec => []AddressesDistinct
<1>1. Init => AddressInv
  BY DEF Init, AddressInv, AddressesDistinct, HeldFree, HeldOnce, Holds, Creates
<1>2. DirectoryInv /\ FilesInv /\ AddressInv /\ [Next]_vars => AddressInv'
  BY StepAddresses DEF FilesInv
<1>3. AddressInv => AddressesDistinct
  BY DEF AddressInv
<1> QED BY <1>1, <1>2, <1>3, RecordsHold, PTL DEF Spec
=============================================================================
