-------------------------- MODULE Attendance_proofs --------------------------
(***************************************************************************)
(* Theorems about Attendance, for every staff and any number of calls,     *)
(* corrections and retention workers, any length of a day and any batch.   *)
(***************************************************************************)
EXTENDS Attendance, TLAPS, SequenceTheorems, FiniteSetTheorems
-----------------------------------------------------------------------------
(* Days and hours *)
LEMMA DayIsNat == \A t \in Nat : Day(t) \in Nat
<1>1. ASSUME NEW t \in Nat PROVE t \div DayLength \in Nat
  BY TimeAssumption
<1> QED BY <1>1 DEF Day

LEMMA DaysAreNat == Days \subseteq Nat
  BY DayIsNat, TimeAssumption DEF Days, Times

(* An hour of a day is an instant of that day and of no other. *)
LEMMA HourOfDay ==
  ASSUME NEW d \in Nat, NEW h \in 0..(DayLength - 1)
  PROVE  d * DayLength + h \in Nat /\ Day(d * DayLength + h) = d
<1>1. d * DayLength + h \in Nat
  BY TimeAssumption
<1>2. (d * DayLength + h) \div DayLength = d
  BY TimeAssumption
<1> QED BY <1>1, <1>2 DEF Day

Punctuality == {"terlambat", "tepat_waktu", "pulang_cepat", "valid"}

LEMMA StatusTyped == \A type, t : StatusAt(type, t) \in Punctuality
  BY DEF StatusAt, CheckInStatus, CheckOutStatus, Punctuality

(* Records *)
LEMMA KeyTyped ==
  ASSUME NEW u \in Users, NEW d \in Days, NEW type \in Types
  PROVE  Key(u, d, type) \in Keys
  BY DEF Key, Keys

LEMMA KeyFields ==
  ASSUME NEW k \in Keys
  PROVE  k.user \in Users /\ k.day \in Days /\ k.type \in Types /\ k = Key(k.user, k.day, k.type)
  BY DEF Keys, Key

LEMMA RecordFields ==
  ASSUME NEW q \in Record
  PROVE  /\ q.step \in {"begun", "checked", "uploaded", "failed"} /\ q.key \in Keys
         /\ q.time \in Times /\ q.photo \in Photos \cup {NoPhoto}
  BY DEF Record

LEMMA CorrectionFields ==
  ASSUME NEW q \in Correction
  PROVE  /\ q.user \in Users /\ q.day \in Days /\ q.status \in Pending \cup Settled
         /\ q.clock \in [Types -> (0..(DayLength - 1)) \cup {NoTime}]
  BY DEF Correction

CheckIn(k) == Key(k.user, k.day, "check_in")

LEMMA CheckInTyped == ASSUME NEW k \in Keys PROVE CheckIn(k) \in Keys
  BY KeyFields, KeyTyped DEF CheckIn, Types

(* What a call, and what a retention run, knows: a call that was checked for *)
(* a check-out has found a check-in; a run works on rows that are there.     *)
CallsInv ==
  \A r \in Records : record[r] # NoRecord =>
    /\ record[r].key.day = Day(record[r].time)
    /\ record[r].step \in {"uploaded", "failed"} => record[r].photo \in Photos
    /\ record[r].step # "begun" /\ record[r].key.type = "check_out" =>
         row[CheckIn(record[r].key)] # NoRow

RunsInv ==
  \A w \in Workers : job[w] # NoJob =>
    \A k \in job[w].todo \cup job[w].cleared : row[k] # NoRow

RowDays == \A k \in Keys : row[k] # NoRow => Day(row[k].time) = k.day

DayInv == TypeOK /\ CallsInv /\ RunsInv /\ CheckOutNeedsCheckIn

LEMMA InitDay == Init => DayInv
<1> SUFFICES ASSUME Init PROVE DayInv
  OBVIOUS
<1>1. 0 \in Times
  BY TimeAssumption DEF Times
<1>2. <<>> \in Seq(Decision)
  BY EmptySeq
<1>3. TypeOK
  BY <1>1, <1>2 DEF Init, TypeOK
<1> QED
  BY <1>3 DEF Init, DayInv, CallsInv, RunsInv, CheckOutNeedsCheckIn

(* No row goes: what a step may do to the rows as far as the day is concerned. *)
RowsGrow ==
  /\ row' \in [Keys -> Row \cup {NoRow}] /\ RowDays'
  /\ \A k \in Keys : row[k] # NoRow => row'[k] # NoRow /\ row'[k].origin = row[k].origin

LEMMA SameRows == DayInv /\ UNCHANGED row => RowsGrow
  BY DEF DayInv, TypeOK, RowsGrow, RowDays

(* The rest of a step that does not touch the calls. *)
LEMMA CallsStay ==
  ASSUME DayInv, RowsGrow, UNCHANGED record
  PROVE  CallsInv'
  BY CheckInTyped, RecordFields DEF DayInv, TypeOK, CallsInv, RowsGrow, Record

LEMMA RunsStay ==
  ASSUME DayInv, RowsGrow, UNCHANGED job
  PROVE  RunsInv'
  BY DEF DayInv, TypeOK, RunsInv, RowsGrow, Job

LEMMA CheckOutsStay ==
  ASSUME DayInv, RowsGrow,
         \A k \in Keys : row[k] = NoRow /\ row'[k] # NoRow =>
           \/ row'[k].origin = "koreksi"
           \/ k.type = "check_out" => row[CheckIn(k)] # NoRow
  PROVE  CheckOutNeedsCheckIn'
  BY CheckInTyped DEF DayInv, CheckOutNeedsCheckIn, RowsGrow, CheckIn

(* A call becomes q, or ends. *)
LEMMA OneCall ==
  ASSUME DayInv, RowsGrow, NEW r \in Records, NEW q \in Record \cup {NoRecord},
         record' = [record EXCEPT ![r] = q],
         q # NoRecord => /\ q.key.day = Day(q.time)
                         /\ q.step \in {"uploaded", "failed"} => q.photo \in Photos
                         /\ q.step # "begun" /\ q.key.type = "check_out" =>
                              row[CheckIn(q.key)] # NoRow
  PROVE  record' \in [Records -> Record \cup {NoRecord}] /\ CallsInv'
<1>1. /\ record' \in [Records -> Record \cup {NoRecord}] /\ record'[r] = q
      /\ \A s \in Records \ {r} : record'[s] = record[s]
  BY DEF DayInv, TypeOK
<1>2. \A s \in Records : record'[s] # NoRecord => CheckIn(record'[s].key) \in Keys
  BY <1>1, RecordFields, CheckInTyped
<1>3. CallsInv'
  BY <1>1, <1>2, AttendanceAbsence DEF DayInv, CallsInv, RowsGrow
<1> QED BY <1>1, <1>3

(* A row is inserted by call r. *)
LEMMA InsertedRow ==
  ASSUME DayInv, NEW r \in Records, RecordAt(r, "uploaded"), row[record[r].key] = NoRow,
         row' = [row EXCEPT ![record[r].key] = RecordedRow(r)]
  PROVE  RowsGrow /\ CheckOutNeedsCheckIn'
<1> DEFINE k == record[r].key
           new == RecordedRow(r)
<1>1. /\ record[r] \in Record /\ record[r] # NoRecord /\ k \in Keys /\ record[r].photo \in Photos
      /\ record[r].time \in Times /\ k.day = Day(record[r].time)
      /\ k.type = "check_out" => row[CheckIn(k)] # NoRow
  BY RecordFields DEF DayInv, TypeOK, CallsInv, RecordAt
<1>2. record[r].time \in Nat
  BY <1>1, TimeAssumption DEF Times
<1>3. new \in Row /\ new.time = record[r].time
  BY <1>1, <1>2, StatusTyped DEF RecordedRow, Row, Locations, Punctuality
<1>4. new # NoRow
  BY <1>3, AttendanceAbsence
<1> HIDE DEF k, new
<1>5. /\ row' \in [Keys -> Row \cup {NoRow}] /\ row'[k] = new
      /\ \A l \in Keys \ {k} : row'[l] = row[l]
  BY <1>1, <1>3 DEF DayInv, TypeOK, k, new
<1>6. RowsGrow
  BY <1>1, <1>3, <1>4, <1>5 DEF RowsGrow, RowDays, DayInv, TypeOK, k
<1>7. CheckOutNeedsCheckIn'
  BY <1>1, <1>5, <1>6, CheckOutsStay
<1> QED BY <1>6, <1>7

LEMMA RecordKeepsDay ==
  ASSUME DayInv, NEW r \in Records, RecordStep(r)
  PROVE  DayInv'
<1>0. TypeOK /\ CallsInv /\ CheckOutNeedsCheckIn
  BY DEF DayInv
<1>1. now' = now /\ UNCHANGED <<correction, decisions, job>>
  BY DEF RecordStep, BeginRecord, CheckSequence, UploadPhoto, Create, CreateFails,
     TakeBackPhoto, GiveUpRecord
<1>2. ASSUME RowsGrow, CheckOutNeedsCheckIn', CallsInv',
             record' \in [Records -> Record \cup {NoRecord}],
             storage' \subseteq {ObjectURL(p) : p \in Photos}
      PROVE  DayInv'
  <2>1. TypeOK'
    BY <1>0, <1>1, <1>2 DEF TypeOK, RowsGrow, RowDays
  <2> QED
    BY <1>1, <1>2, <2>1, RunsStay DEF DayInv
<1>3. UNCHANGED row => RowsGrow /\ CheckOutNeedsCheckIn'
  BY <1>0, SameRows DEF CheckOutNeedsCheckIn
<1>4. ASSUME Answer(r), RowsGrow
      PROVE  record' \in [Records -> Record \cup {NoRecord}] /\ CallsInv'
  BY <1>4, OneCall DEF Answer
<1>5. ASSUME NEW u \in Users, NEW type \in Types, BeginRecord(r, u, type) PROVE DayInv'
  <2> DEFINE q == [step |-> "begun", key |-> Key(u, Day(now), type), time |-> now,
                   photo |-> NoPhoto]
  <2>1. /\ record' = [record EXCEPT ![r] = q] /\ UNCHANGED <<row, storage>>
    BY <1>5 DEF BeginRecord
  <2>2. Day(now) \in Days
    BY <1>0 DEF TypeOK, Days
  <2>3. q \in Record /\ q.key.day = Day(q.time) /\ q.step = "begun"
    BY <1>0, <2>2, KeyTyped DEF Record, TypeOK, Key
  <2> HIDE DEF q
  <2> QED
    BY <1>0, <1>2, <1>3, <2>1, <2>3, OneCall DEF TypeOK
<1>6. CASE CheckSequence(r)
  <2> DEFINE q == [record[r] EXCEPT !.step = "checked"]
  <2>1. /\ record[r] # NoRecord /\ record' = [record EXCEPT ![r] = q]
        /\ UNCHANGED <<row, storage>>
        /\ record[r].key.type = "check_out" => row[CheckIn(record[r].key)] # NoRow
    BY <1>6 DEF CheckSequence, RecordAt, CheckIn
  <2>2. record[r] \in Record
    BY <1>0, <2>1 DEF TypeOK
  <2>3. /\ q \in Record /\ q.key = record[r].key /\ q.time = record[r].time
        /\ q.step = "checked"
    BY <2>2 DEF Record
  <2> HIDE DEF q
  <2> QED
    BY <1>0, <1>2, <1>3, <2>1, <2>3, OneCall DEF TypeOK, CallsInv
<1>7. ASSUME NEW p \in Photos, UploadPhoto(r, p) PROVE DayInv'
  <2> DEFINE q == [record[r] EXCEPT !.step = "uploaded", !.photo = p]
  <2>1. /\ record[r] # NoRecord /\ record[r].step = "checked"
        /\ record' = [record EXCEPT ![r] = q] /\ UNCHANGED row
        /\ storage' = storage \cup {ObjectURL(p)}
    BY <1>7 DEF UploadPhoto, RecordAt, Upload
  <2>2. record[r] \in Record
    BY <1>0, <2>1 DEF TypeOK
  <2>3. /\ q \in Record /\ q.key = record[r].key /\ q.time = record[r].time
        /\ q.step = "uploaded" /\ q.photo = p
    BY <2>2 DEF Record
  <2> HIDE DEF q
  <2>4. storage' \subseteq {ObjectURL(o) : o \in Photos}
    BY <1>0, <2>1 DEF TypeOK
  <2>5. record' \in [Records -> Record \cup {NoRecord}] /\ CallsInv'
    BY <1>0, <1>3, <2>1, <2>3, OneCall DEF CallsInv
  <2> QED
    BY <1>2, <1>3, <2>1, <2>4, <2>5
<1>8. CASE Create(r)
  <2>1. RowsGrow /\ CheckOutNeedsCheckIn' /\ Answer(r) /\ UNCHANGED storage
    BY <1>8, InsertedRow DEF Create
  <2> QED
    BY <1>0, <1>2, <1>4, <2>1 DEF TypeOK
<1>9. CASE CreateFails(r)
  <2> DEFINE q == [record[r] EXCEPT !.step = "failed"]
  <2>1. /\ record[r] # NoRecord /\ record[r].step = "uploaded"
        /\ record' = [record EXCEPT ![r] = q] /\ UNCHANGED storage
    BY <1>9 DEF CreateFails, RecordAt
  <2>2. RowsGrow /\ CheckOutNeedsCheckIn'
    BY <1>3, <1>9, InsertedRow DEF CreateFails
  <2>3. record[r] \in Record
    BY <1>0, <2>1 DEF TypeOK
  <2>4. /\ q \in Record /\ q.key = record[r].key /\ q.time = record[r].time
        /\ q.step = "failed" /\ q.photo = record[r].photo
    BY <2>3 DEF Record
  <2> HIDE DEF q
  <2>5. record' \in [Records -> Record \cup {NoRecord}] /\ CallsInv'
    BY <1>0, <2>1, <2>2, <2>4, OneCall DEF CallsInv
  <2> QED
    BY <1>0, <1>2, <2>1, <2>2, <2>5 DEF TypeOK
<1>10. CASE TakeBackPhoto(r) \/ GiveUpRecord(r)
  <2>1. /\ UNCHANGED row /\ Answer(r) /\ storage' \subseteq storage
    BY <1>10 DEF TakeBackPhoto, GiveUpRecord, Delete
  <2> QED
    BY <1>0, <1>2, <1>3, <1>4, <2>1 DEF TypeOK
<1> QED BY <1>5, <1>6, <1>7, <1>8, <1>9, <1>10 DEF RecordStep
-----------------------------------------------------------------------------
(* Corrections *)
LEMMA FirstStatusPending ==
  ASSUME NEW role, NEW has, NEW s \in InitialStatusForRole(role, has)
  PROVE  s \in Pending
  BY DEF InitialStatusForRole, Pending

(* Where a decision leads, and which one settles a request. *)
LEMMA DecisionLeads ==
  ASSUME NEW s \in Pending, NEW decision \in {"approve", "reject"},
         NEW next, next = IF decision = "approve" THEN NextStatusAfterApprove(s) ELSE "ditolak"
  PROVE  /\ next \in Pending \cup Settled
         /\ StageForStatus(s) \in Stages
         /\ next = "disetujui" <=> decision = "approve" /\ StageForStatus(s) # "atasan"
  BY DEF Pending, Settled, Stages, StageForStatus, NextStatusAfterApprove

LEMMA CorrectedTimeOfDay ==
  ASSUME TypeOK, NEW c \in Corrections, correction[c] # NoCorrection, NEW k \in CorrectedKeys(c)
  PROVE  /\ CorrectedTime(c, k.type) \in Nat /\ Day(CorrectedTime(c, k.type)) = k.day
         /\ k \in Keys /\ k = Key(correction[c].user, correction[c].day, k.type)
<1>1. correction[c] \in Correction /\ k \in Keys
  BY DEF TypeOK, CorrectedKeys
<1>2. /\ k.user = correction[c].user /\ k.day = correction[c].day
      /\ correction[c].clock[k.type] # NoTime
  BY DEF CorrectedKeys
<1>3. k.type \in Types /\ k.day \in Nat
  BY <1>1, KeyFields, DaysAreNat
<1>4. correction[c].clock[k.type] \in 0..(DayLength - 1)
  BY <1>1, <1>2, <1>3, CorrectionFields
<1>5. /\ k.day * DayLength + correction[c].clock[k.type] \in Nat
      /\ Day(k.day * DayLength + correction[c].clock[k.type]) = k.day
  BY <1>3, <1>4, HourOfDay
<1> QED
  BY <1>1, <1>2, <1>5, KeyFields DEF CorrectedTime

(* The row that a correction writes. *)
LEMMA CorrectedRowTyped ==
  ASSUME TypeOK, NEW c \in Corrections, correction[c] # NoCorrection, NEW k \in CorrectedKeys(c)
  PROVE  LET new == CorrectedRow(c, k.type)
             t == CorrectedTime(c, k.type)
         IN /\ new \in Row /\ new # NoRow /\ new.time = t /\ new.status = StatusAt(k.type, t)
            /\ new.origin = IF row[k] = NoRow THEN "koreksi" ELSE row[k].origin
<1> DEFINE new == CorrectedRow(c, k.type)
           t == CorrectedTime(c, k.type)
<1>1. /\ t \in Nat /\ k \in Keys /\ k = Key(correction[c].user, correction[c].day, k.type)
  BY CorrectedTimeOfDay
<1>2. StatusAt(k.type, t) \in Punctuality
  BY StatusTyped
<1> HIDE DEF t
<1>3. CASE row[k] = NoRow
  <2>1. new = [time |-> t, status |-> StatusAt(k.type, t), photo |-> NoPhoto,
               origin |-> "koreksi"]
    BY <1>1, <1>3 DEF CorrectedRow, t
  <2>2. new \in Row
    BY <1>1, <1>2, <2>1 DEF Row, Punctuality
  <2> HIDE DEF new
  <2> QED BY <1>3, <2>1, <2>2, AttendanceAbsence DEF new, t
<1>4. CASE row[k] # NoRow
  <2>1. new = [row[k] EXCEPT !.time = t, !.status = StatusAt(k.type, t)]
    BY <1>1, <1>4 DEF CorrectedRow, t
  <2>2. row[k] \in Row
    BY <1>1, <1>4 DEF TypeOK
  <2>3. new \in Row /\ new.time = t /\ new.status = StatusAt(k.type, t) /\ new.origin = row[k].origin
    BY <1>1, <1>2, <2>1, <2>2 DEF Row, Punctuality
  <2> HIDE DEF new
  <2> QED BY <1>4, <2>3, AttendanceAbsence DEF new, t
<1> QED BY <1>3, <1>4

LEMMA CorrectionApplied ==
  ASSUME DayInv, NEW c \in Corrections, correction[c] # NoCorrection, ApplyCorrection(c)
  PROVE  /\ RowsGrow /\ CheckOutNeedsCheckIn'
         /\ \A k \in CorrectedKeys(c) : row'[k] = CorrectedRow(c, k.type)
         /\ \A k \in Keys \ CorrectedKeys(c) : row'[k] = row[k]
<1>0. TypeOK
  BY DEF DayInv
<1>1. CorrectedKeys(c) \subseteq Keys
  BY DEF CorrectedKeys
<1>2. /\ \A k \in CorrectedKeys(c) : row'[k] = CorrectedRow(c, k.type)
      /\ \A k \in Keys \ CorrectedKeys(c) : row'[k] = row[k]
  BY <1>1 DEF ApplyCorrection
<1>3. \A k \in CorrectedKeys(c) :
        /\ row'[k] \in Row /\ row'[k] # NoRow /\ row'[k].time = CorrectedTime(c, k.type)
        /\ row'[k].origin = IF row[k] = NoRow THEN "koreksi" ELSE row[k].origin
  BY <1>0, <1>2, CorrectedRowTyped
<1>4. row' \in [Keys -> Row \cup {NoRow}]
  <2> DEFINE new(k) == IF k \in CorrectedKeys(c) THEN CorrectedRow(c, k.type) ELSE row[k]
  <2>1. \A k \in Keys : new(k) \in Row \cup {NoRow}
    BY <1>0, CorrectedRowTyped DEF TypeOK
  <2>2. row' = [k \in Keys |-> new(k)]
    BY DEF ApplyCorrection
  <2> HIDE DEF new
  <2> QED BY <2>1, <2>2
<1>5. RowDays'
  BY <1>0, <1>2, <1>3, CorrectedTimeOfDay DEF RowDays, TypeOK
<1>6. RowsGrow
  BY <1>2, <1>3, <1>4, <1>5 DEF RowsGrow
<1>7. CheckOutNeedsCheckIn'
  BY <1>2, <1>3, <1>6, CheckOutsStay
<1> QED BY <1>2, <1>6, <1>7

LEMMA CorrectionKeepsDay ==
  ASSUME DayInv, NEW c \in Corrections, CorrectionStep(c)
  PROVE  DayInv'
<1>0. TypeOK /\ CheckOutNeedsCheckIn
  BY DEF DayInv
<1>1. now' = now /\ UNCHANGED <<storage, record, job>>
  BY DEF CorrectionStep, CreateCorrection, DecideCorrection
<1>2. ASSUME RowsGrow, CheckOutNeedsCheckIn',
             correction' \in [Corrections -> Correction \cup {NoCorrection}],
             decisions' \in Seq(Decision)
      PROVE  DayInv'
  <2>1. TypeOK'
    BY <1>0, <1>1, <1>2 DEF TypeOK, RowsGrow, RowDays
  <2> QED
    BY <1>1, <1>2, <2>1, CallsStay, RunsStay DEF DayInv
<1>3. UNCHANGED row => RowsGrow /\ CheckOutNeedsCheckIn'
  BY <1>0, SameRows DEF CheckOutNeedsCheckIn
<1>4. ASSUME NEW u \in Users, NEW d \in Days,
             NEW clock \in [Types -> (0..(DayLength - 1)) \cup {NoTime}],
             CreateCorrection(c, u, d, clock)
      PROVE  DayInv'
  <2>1. PICK s \in InitialStatusForRole(Role[u], Boss[u] # NoUser) :
          correction' = [correction EXCEPT ![c] =
            [user |-> u, day |-> d, status |-> s, clock |-> clock]]
    BY <1>4 DEF CreateCorrection
  <2>2. s \in Pending
    BY FirstStatusPending
  <2>3. [user |-> u, day |-> d, status |-> s, clock |-> clock] \in Correction
    BY <2>2 DEF Correction
  <2>4. UNCHANGED <<row, decisions>>
    BY <1>4 DEF CreateCorrection
  <2>5. correction' \in [Corrections -> Correction \cup {NoCorrection}]
    BY <1>0, <2>1, <2>3 DEF TypeOK
  <2> QED BY <1>0, <1>2, <1>3, <2>4, <2>5 DEF TypeOK
<1>5. ASSUME NEW by \in Users, NEW decision \in {"approve", "reject"},
             DecideCorrection(c, by, decision)
      PROVE  DayInv'
  <2> DEFINE s == correction[c].status
             next == IF decision = "approve" THEN NextStatusAfterApprove(s) ELSE "ditolak"
             entry == [of |-> c, stage |-> StageForStatus(s), by |-> by, decision |-> decision]
  <2>1. /\ correction[c] # NoCorrection /\ s \in Pending
        /\ correction' = [correction EXCEPT ![c].status = next]
        /\ decisions' = Append(decisions, entry)
        /\ ApplyCorrection(c) \/ UNCHANGED row
    BY <1>5 DEF DecideCorrection, MayDecideCorrection
  <2>2. next \in Pending \cup Settled /\ StageForStatus(s) \in Stages
    BY <2>1, DecisionLeads
  <2>3. entry \in Decision
    BY <2>2 DEF Decision, Decisions
  <2>4. correction[c] \in Correction
    BY <1>0, <2>1 DEF TypeOK
  <2> HIDE DEF s, next, entry
  <2>5. [correction[c] EXCEPT !.status = next] \in Correction
    BY <2>2, <2>4 DEF Correction
  <2>6. correction' \in [Corrections -> Correction \cup {NoCorrection}]
    BY <1>0, <2>1, <2>5 DEF TypeOK
  <2>7. decisions' \in Seq(Decision)
    BY <1>0, <2>1, <2>3 DEF TypeOK
  <2> QED
    BY <1>2, <1>3, <2>1, <2>6, <2>7, CorrectionApplied
<1> QED BY <1>4, <1>5 DEF CorrectionStep
-----------------------------------------------------------------------------
(* The retention run *)
LEMMA JobKeepsDay ==
  ASSUME DayInv, NEW w \in Workers, JobStep(w)
  PROVE  DayInv'
<1>0. TypeOK /\ CheckOutNeedsCheckIn /\ RunsInv
  BY DEF DayInv
<1>1. now' = now /\ UNCHANGED <<record, correction, decisions>>
  BY DEF JobStep, ClaimExpiredPhotos, ProcessPhoto, DeletePhoto, DeletePhotoFails, CommitJob,
     RollbackJob
<1>2. ASSUME RowsGrow, CheckOutNeedsCheckIn', RunsInv',
             job' \in [Workers -> Job \cup {NoJob}], storage' \subseteq storage
      PROVE  DayInv'
  <2>1. TypeOK'
    BY <1>0, <1>1, <1>2 DEF TypeOK, RowsGrow, RowDays
  <2> QED
    BY <1>1, <1>2, <2>1, CallsStay DEF DayInv
<1>3. UNCHANGED row => RowsGrow /\ CheckOutNeedsCheckIn'
  BY <1>0, SameRows DEF CheckOutNeedsCheckIn
<1>4. ASSUME NEW j \in Job \cup {NoJob}, RowsGrow, job' = [job EXCEPT ![w] = j],
             j # NoJob => \A k \in j.todo \cup j.cleared : row[k] # NoRow
      PROVE  job' \in [Workers -> Job \cup {NoJob}] /\ RunsInv'
  <2>1. /\ job' \in [Workers -> Job \cup {NoJob}] /\ job'[w] = j
        /\ \A v \in Workers \ {w} : job'[v] = job[v]
    BY <1>0, <1>4 DEF TypeOK
  <2>2. \A v \in Workers : job'[v] # NoJob => job'[v].todo \cup job'[v].cleared \subseteq Keys
    BY <2>1 DEF Job
  <2>3. RunsInv'
    BY <1>0, <1>4, <2>1, <2>2 DEF RunsInv, RowsGrow
  <2> QED BY <2>1, <2>3
<1>5. ASSUME NEW batch \in SUBSET Keys, ClaimExpiredPhotos(w, batch) PROVE DayInv'
  <2> DEFINE j == [todo |-> batch, cleared |-> {}, claimed |-> batch]
  <2>1. /\ job' = [job EXCEPT ![w] = j] /\ UNCHANGED <<row, storage>>
        /\ \A k \in batch : row[k] # NoRow
    BY <1>5 DEF ClaimExpiredPhotos, Expired
  <2>2. j \in Job
    BY DEF Job
  <2>3. \A k \in j.todo \cup j.cleared : row[k] # NoRow
    BY <2>1
  <2> HIDE DEF j
  <2> QED BY <1>2, <1>3, <1>4, <2>1, <2>2, <2>3
<1>6. ASSUME NEW k \in Keys, DeletePhoto(w, k) PROVE DayInv'
  <2> DEFINE j == [job[w] EXCEPT !.todo = @ \ {k}, !.cleared = @ \cup {k}]
  <2>1. /\ job[w] # NoJob /\ k \in job[w].todo /\ job' = [job EXCEPT ![w] = j]
        /\ UNCHANGED row /\ storage' \subseteq storage
    BY <1>6 DEF DeletePhoto, Delete
  <2>2. job[w] \in Job
    BY <1>0, <2>1 DEF TypeOK
  <2>3. /\ j \in Job /\ j.todo = job[w].todo \ {k} /\ j.cleared = job[w].cleared \cup {k}
    BY <2>2 DEF Job
  <2>4. \A l \in j.todo \cup j.cleared : row[l] # NoRow
    BY <1>0, <2>1, <2>3 DEF RunsInv
  <2> HIDE DEF j
  <2> QED BY <1>2, <1>3, <1>4, <2>1, <2>3, <2>4
<1>7. ASSUME NEW k \in Keys, DeletePhotoFails(w, k) PROVE DayInv'
  <2> DEFINE j == [job[w] EXCEPT !.todo = @ \ {k}]
  <2>1. /\ job[w] # NoJob /\ job' = [job EXCEPT ![w] = j] /\ UNCHANGED <<row, storage>>
    BY <1>7 DEF DeletePhotoFails
  <2>2. job[w] \in Job
    BY <1>0, <2>1 DEF TypeOK
  <2>3. /\ j \in Job /\ j.todo = job[w].todo \ {k} /\ j.cleared = job[w].cleared
    BY <2>2 DEF Job
  <2>4. \A l \in j.todo \cup j.cleared : row[l] # NoRow
    BY <1>0, <2>1, <2>3 DEF RunsInv
  <2> HIDE DEF j
  <2> QED BY <1>2, <1>3, <1>4, <2>1, <2>3, <2>4
<1>8. CASE CommitJob(w)
  <2>1. /\ job[w] # NoJob /\ job' = [job EXCEPT ![w] = NoJob] /\ UNCHANGED storage
        /\ row' = [k \in Keys |-> IF k \in job[w].cleared THEN [row[k] EXCEPT !.photo = NoPhoto]
                                                          ELSE row[k]]
    BY <1>8 DEF CommitJob
  <2>2. \A k \in Keys : row[k] # NoRow => /\ row[k] \in Row
                                          /\ [row[k] EXCEPT !.photo = NoPhoto] \in Row
                                          /\ [row[k] EXCEPT !.photo = NoPhoto].time = row[k].time
                                          /\ [row[k] EXCEPT !.photo = NoPhoto].origin = row[k].origin
    BY <1>0 DEF TypeOK, Row
  <2>3. \A k \in Keys : \/ row'[k] = row[k]
                        \/ row[k] # NoRow /\ row'[k] = [row[k] EXCEPT !.photo = NoPhoto]
    BY <1>0, <2>1 DEF RunsInv
  <2>4. \A k \in Keys : \/ row'[k] = row[k]
                        \/ /\ row[k] # NoRow /\ row'[k] \in Row /\ row'[k] # NoRow
                           /\ row'[k].time = row[k].time /\ row'[k].origin = row[k].origin
    BY <2>2, <2>3, AttendanceAbsence
  <2>5. row' \in [Keys -> Row \cup {NoRow}]
    <3>1. \A k \in Keys : row'[k] \in Row \cup {NoRow}
      BY <1>0, <2>4 DEF TypeOK
    <3>2. row' = [k \in Keys |-> row'[k]]
      BY <2>1
    <3> QED BY <3>1, <3>2
  <2>6. RowsGrow /\ CheckOutNeedsCheckIn'
    <3>1. RowsGrow
      BY <1>0, <2>4, <2>5 DEF RowsGrow, RowDays, TypeOK
    <3> QED BY <2>4, <3>1, CheckOutsStay
  <2> QED BY <1>2, <1>4, <2>1, <2>6
<1>9. CASE RollbackJob(w)
  <2>1. job' = [job EXCEPT ![w] = NoJob] /\ UNCHANGED <<row, storage>>
    BY <1>9 DEF RollbackJob
  <2> QED BY <1>2, <1>3, <1>4, <2>1
<1> QED BY <1>5, <1>6, <1>7, <1>8, <1>9 DEF JobStep, ProcessPhoto

LEMMA DayStep == DayInv /\ [Next]_vars => DayInv'
<1> SUFFICES ASSUME DayInv, [Next]_vars PROVE DayInv'
  OBVIOUS
<1>1. CASE Tick
  <2>1. /\ now' \in Times /\ UNCHANGED <<row, storage, record, correction, decisions, job>>
    BY <1>1, TimeAssumption DEF DayInv, TypeOK, Tick, Times
  <2>2. TypeOK' /\ CheckOutNeedsCheckIn'
    BY <2>1 DEF DayInv, TypeOK, CheckOutNeedsCheckIn
  <2> QED
    BY <2>1, <2>2, SameRows, CallsStay, RunsStay DEF DayInv
<1>2. ASSUME NEW r \in Records, RecordStep(r) PROVE DayInv'
  BY <1>2, RecordKeepsDay
<1>3. ASSUME NEW c \in Corrections, CorrectionStep(c) PROVE DayInv'
  BY <1>3, CorrectionKeepsDay
<1>4. ASSUME NEW w \in Workers, JobStep(w) PROVE DayInv'
  BY <1>4, JobKeepsDay
<1>5. CASE UNCHANGED vars
  BY <1>5 DEF vars, DayInv, TypeOK, CallsInv, RunsInv, CheckOutNeedsCheckIn
<1> QED BY <1>1, <1>2, <1>3, <1>4, <1>5 DEF Next

(* Every row, call, correction and run has its type, and the time of a row   *)
(* is one of its day, whether the user recorded it or a correction did.      *)
THEOREM TypesHold == Spec => []TypeOK
<1>1. DayInv => TypeOK
  BY DEF DayInv
<1> QED BY <1>1, InitDay, DayStep, PTL DEF Spec

(* A check-out that was recorded has its check-in, however late it is        *)
(* inserted after the check: no row ever goes.                               *)
THEOREM CheckOutsFollow == Spec => []CheckOutNeedsCheckIn
<1>1. DayInv => CheckOutNeedsCheckIn
  BY DEF DayInv
<1> QED BY <1>1, InitDay, DayStep, PTL DEF Spec
-----------------------------------------------------------------------------
(* Corrections prevail: the decisions are of corrections there are, whose    *)
(* times never change, and only a later approval writes a corrected row.     *)
DecidedExist == \A i \in 1..Len(decisions) : correction[decisions[i].of] # NoCorrection

PrevailInv == DecidedExist /\ CorrectionsPrevail

Last(k, i) == i \in Approvals(k) /\ \A j \in Approvals(k) : j <= i

Says(k, c) ==
  LET t == CorrectedTime(c, k.type)
  IN row[k] # NoRow /\ row[k].time = t /\ row[k].status = StatusAt(k.type, t)

LEMMA PrevailsMeans ==
  CorrectionsPrevail <=>
    \A k \in Keys : \A i \in Approvals(k) : Last(k, i) => \A c : c = decisions[i].of => Says(k, c)
  BY DEF CorrectionsPrevail, Last, Says

(* The same in the next state. *)
LEMMA PrevailsMeansNext ==
  CorrectionsPrevail' <=>
    \A k \in Keys : \A i \in Approvals(k)' : Last(k, i)' =>
      \A c : c = decisions'[i].of => Says(k, c)'
  BY DEF CorrectionsPrevail, Last, Says

(* A row and a correction that a step leaves alone still agree. *)
LEMMA SaysStill ==
  ASSUME NEW k \in Keys, NEW c, Says(k, c),
         CorrectedTime(c, k.type)' = CorrectedTime(c, k.type),
         row'[k] # NoRow, row'[k].time = row[k].time, row'[k].status = row[k].status
  PROVE  Says(k, c)'
  BY DEF Says

LEMMA RowsSaySame ==
  ASSUME PrevailInv, UNCHANGED <<correction, decisions>>,
         \A k \in Keys : row[k] # NoRow => /\ row'[k] # NoRow /\ row'[k].time = row[k].time
                                           /\ row'[k].status = row[k].status
  PROVE  PrevailInv'
<1>1. \A c, type : CorrectedTime(c, type)' = CorrectedTime(c, type)
  BY DEF CorrectedTime
<1>2. \A c : CorrectedKeys(c)' = CorrectedKeys(c)
  BY DEF CorrectedKeys
<1>3. \A k : Approvals(k)' = Approvals(k)
  BY <1>2 DEF Approvals
<1>4. \A k, i : Last(k, i)' <=> Last(k, i)
  BY <1>3 DEF Last
<1>5. CorrectionsPrevail'
  <2> SUFFICES ASSUME NEW k \in Keys, NEW i \in Approvals(k)', Last(k, i)',
                      NEW c, c = decisions'[i].of
               PROVE  Says(k, c)'
    BY PrevailsMeansNext
  <2>1. Says(k, c)
    BY <1>3, <1>4, PrevailsMeans DEF PrevailInv
  <2> QED BY <1>1, <2>1, SaysStill DEF Says
<1>6. DecidedExist'
  BY DEF PrevailInv, DecidedExist
<1> QED BY <1>5, <1>6 DEF PrevailInv

LEMMA RecordPrevails ==
  ASSUME DayInv, PrevailInv, NEW r \in Records, RecordStep(r)
  PROVE  PrevailInv'
<1>1. UNCHANGED <<correction, decisions>>
  BY DEF RecordStep, BeginRecord, CheckSequence, UploadPhoto, Create, CreateFails,
     TakeBackPhoto, GiveUpRecord
<1>2. \/ UNCHANGED row
      \/ row[record[r].key] = NoRow /\ row' = [row EXCEPT ![record[r].key] = RecordedRow(r)]
  BY DEF RecordStep, BeginRecord, CheckSequence, UploadPhoto, Create, CreateFails,
     TakeBackPhoto, GiveUpRecord
<1>3. \A k \in Keys : row[k] # NoRow => row'[k] = row[k]
  BY <1>2 DEF DayInv, TypeOK
<1> QED BY <1>1, <1>3, RowsSaySame

LEMMA JobPrevails ==
  ASSUME DayInv, PrevailInv, NEW w \in Workers, JobStep(w)
  PROVE  PrevailInv'
<1>1. UNCHANGED <<correction, decisions>>
  BY DEF JobStep, ClaimExpiredPhotos, ProcessPhoto, DeletePhoto, DeletePhotoFails, CommitJob,
     RollbackJob
<1>2. ASSUME NEW k \in Keys, row[k] # NoRow
      PROVE  row'[k] = row[k] \/ row'[k] = [row[k] EXCEPT !.photo = NoPhoto]
  BY <1>2 DEF JobStep, ClaimExpiredPhotos, ProcessPhoto, DeletePhoto, DeletePhotoFails, CommitJob,
     RollbackJob
<1>3. \A k \in Keys : row[k] # NoRow =>
        /\ row[k] \in Row /\ [row[k] EXCEPT !.photo = NoPhoto] \in Row
        /\ [row[k] EXCEPT !.photo = NoPhoto].time = row[k].time
        /\ [row[k] EXCEPT !.photo = NoPhoto].status = row[k].status
  BY DEF DayInv, TypeOK, Row
<1>4. \A k \in Keys : row[k] # NoRow => /\ row'[k] # NoRow /\ row'[k].time = row[k].time
                                        /\ row'[k].status = row[k].status
  BY <1>2, <1>3, AttendanceAbsence
<1> QED BY <1>1, <1>4, RowsSaySame

LEMMA SubmissionPrevails ==
  ASSUME DayInv, PrevailInv, NEW c \in Corrections, NEW u \in Users, NEW d \in Days,
         NEW clock \in [Types -> (0..(DayLength - 1)) \cup {NoTime}],
         CreateCorrection(c, u, d, clock)
  PROVE  PrevailInv'
<1>1. /\ correction[c] = NoCorrection /\ UNCHANGED <<row, decisions>>
      /\ \A b \in Corrections \ {c} : correction'[b] = correction[b]
  BY DEF CreateCorrection, DayInv, TypeOK
<1>2. \A i \in 1..Len(decisions) : decisions[i].of \in Corrections \ {c}
  <2>1. \A i \in 1..Len(decisions) : decisions[i] \in Decision
    BY DEF DayInv, TypeOK
  <2> QED BY <1>1, <2>1 DEF PrevailInv, DecidedExist, Decision
<1>3. \A b \in Corrections \ {c} : /\ CorrectedKeys(b)' = CorrectedKeys(b)
                                   /\ \A type : CorrectedTime(b, type)' = CorrectedTime(b, type)
  BY <1>1 DEF CorrectedKeys, CorrectedTime
<1>4. \A k : Approvals(k)' = Approvals(k)
  BY <1>1, <1>2, <1>3 DEF Approvals
<1>5. \A k, i : Last(k, i)' <=> Last(k, i)
  BY <1>4 DEF Last
<1>6. \A k, i : i \in Approvals(k) => i \in 1..Len(decisions)
  BY DEF Approvals
<1>7. CorrectionsPrevail'
  <2> SUFFICES ASSUME NEW k \in Keys, NEW i \in Approvals(k)', Last(k, i)',
                      NEW b, b = decisions'[i].of
               PROVE  Says(k, b)'
    BY PrevailsMeansNext
  <2>1. i \in 1..Len(decisions) /\ b = decisions[i].of /\ b \in Corrections \ {c}
    BY <1>1, <1>2, <1>4, <1>6
  <2>2. Says(k, b)
    BY <1>4, <1>5, <2>1, PrevailsMeans DEF PrevailInv
  <2> QED BY <1>1, <1>3, <2>1, <2>2, SaysStill DEF Says
<1>8. DecidedExist'
  BY <1>1, <1>2 DEF PrevailInv, DecidedExist
<1> QED BY <1>7, <1>8 DEF PrevailInv

LEMMA DecisionPrevails ==
  ASSUME DayInv, PrevailInv, NEW c \in Corrections, NEW by \in Users,
         NEW decision \in {"approve", "reject"}, DecideCorrection(c, by, decision)
  PROVE  PrevailInv'
<1> DEFINE s == correction[c].status
           next == IF decision = "approve" THEN NextStatusAfterApprove(s) ELSE "ditolak"
           entry == [of |-> c, stage |-> StageForStatus(s), by |-> by, decision |-> decision]
           n == Len(decisions)
<1>1. /\ correction[c] # NoCorrection /\ s \in Pending
      /\ correction' = [correction EXCEPT ![c].status = next]
      /\ decisions' = Append(decisions, entry)
      /\ next = "disetujui" => ApplyCorrection(c)
      /\ next # "disetujui" => UNCHANGED row
  BY DEF DecideCorrection, MayDecideCorrection
<1>2. next = "disetujui" <=> entry.decision = "approve" /\ entry.stage # "atasan"
  BY <1>1, DecisionLeads
<1>3. entry.of = c
  OBVIOUS
<1> HIDE DEF next, entry
<1>4. /\ n \in Nat /\ Len(decisions') = n + 1 /\ decisions'[n + 1] = entry
      /\ \A i \in 1..n : decisions'[i] = decisions[i] /\ decisions[i].of \in Corrections
  <2>1. decisions \in Seq(Decision)
    BY DEF DayInv, TypeOK
  <2>2. \A i \in 1..n : decisions[i] \in Decision
    BY <2>1
  <2> QED BY <1>1, <2>1, <2>2 DEF Decision
<1>5. \A b \in Corrections : correction[b] # NoCorrection =>
        /\ correction'[b] # NoCorrection
        /\ CorrectedKeys(b)' = CorrectedKeys(b)
        /\ \A type : CorrectedTime(b, type)' = CorrectedTime(b, type)
  <2>1. correction[c] \in Correction
    BY <1>1 DEF DayInv, TypeOK
  <2>2. next \in Pending \cup Settled
    BY <1>1, DecisionLeads DEF next
  <2>3. /\ correction'[c] = [correction[c] EXCEPT !.status = next]
        /\ \A b \in Corrections \ {c} : correction'[b] = correction[b]
    BY <1>1 DEF DayInv, TypeOK
  <2>4. /\ correction'[c] \in Correction /\ correction'[c].user = correction[c].user
        /\ correction'[c].day = correction[c].day /\ correction'[c].clock = correction[c].clock
    BY <2>1, <2>2, <2>3 DEF Correction
  <2>5. correction'[c] # NoCorrection
    BY <2>4, AttendanceAbsence
  <2>6. ASSUME NEW b \in Corrections, correction[b] # NoCorrection
        PROVE  /\ correction'[b] # NoCorrection /\ correction'[b].user = correction[b].user
               /\ correction'[b].day = correction[b].day /\ correction'[b].clock = correction[b].clock
    <3>1. CASE b = c
      BY <2>4, <2>5, <3>1
    <3>2. CASE b # c
      BY <2>3, <2>6, <3>2
    <3> QED BY <3>1, <3>2
  <2>7. ASSUME NEW b \in Corrections, correction[b] # NoCorrection
        PROVE  CorrectedKeys(b)' = CorrectedKeys(b)
    BY <2>6, <2>7 DEF CorrectedKeys
  <2>8. ASSUME NEW b \in Corrections, correction[b] # NoCorrection, NEW type
        PROVE  CorrectedTime(b, type)' = CorrectedTime(b, type)
    BY <2>6, <2>8, Zenon DEF CorrectedTime
  <2> QED BY <2>6, <2>7, <2>8
<1>6. ASSUME NEW k \in Keys, NEW i
      PROVE  i \in Approvals(k)' <=>
               \/ i \in Approvals(k)
               \/ i = n + 1 /\ next = "disetujui" /\ k \in CorrectedKeys(c)
  <2>1. \A j \in 1..n : j \in Approvals(k)' <=> j \in Approvals(k)
    BY <1>4, <1>5 DEF Approvals, PrevailInv, DecidedExist
  <2>2. n + 1 \in Approvals(k)' <=> next = "disetujui" /\ k \in CorrectedKeys(c)
    BY <1>1, <1>2, <1>3, <1>4, <1>5 DEF Approvals
  <2>3. i \in Approvals(k)' => i \in 1..n \/ i = n + 1
    BY <1>4 DEF Approvals
  <2>4. i \in Approvals(k) => i \in 1..n
    BY DEF Approvals
  <2>5. n + 1 \in 1..(n + 1)
    BY <1>4
  <2> QED BY <2>1, <2>2, <2>3, <2>4
<1>7. ASSUME NEW k \in Keys, NEW i \in Approvals(k)', Last(k, i)',
             NEW b, b = decisions'[i].of
      PROVE  Says(k, b)'
  <2>1. CASE next = "disetujui" /\ k \in CorrectedKeys(c)
    <3>1. n + 1 \in Approvals(k)' /\ Approvals(k)' \subseteq 1..(n + 1)
      BY <1>4, <1>6, <2>1 DEF Approvals
    <3>2. i = n + 1
      BY <1>4, <1>7, <3>1 DEF Last
    <3>3. b = c
      BY <1>3, <1>4, <1>7, <3>2
    <3>4. row'[k] = CorrectedRow(c, k.type)
      BY <1>1, <2>1, CorrectionApplied
    <3>5. /\ row'[k] # NoRow /\ row'[k].time = CorrectedTime(c, k.type)
          /\ row'[k].status = StatusAt(k.type, CorrectedTime(c, k.type))
      BY <1>1, <2>1, <3>4, CorrectedRowTyped DEF DayInv
    <3>6. CorrectedTime(c, k.type)' = CorrectedTime(c, k.type)
      BY <1>1, <1>5
    <3> QED
      BY <3>3, <3>5, <3>6 DEF Says
  <2>2. CASE ~ (next = "disetujui" /\ k \in CorrectedKeys(c))
    <3>1. Approvals(k)' = Approvals(k)
      BY <1>6, <2>2
    <3>2. i \in Approvals(k) /\ Last(k, i) /\ i \in 1..n
      BY <1>7, <3>1 DEF Last, Approvals
    <3>3. row'[k] = row[k]
      BY <1>1, <2>2, CorrectionApplied
    <3>4. b = decisions[i].of /\ b \in Corrections /\ correction[b] # NoCorrection
      BY <1>4, <1>7, <3>2 DEF PrevailInv, DecidedExist
    <3>5. Says(k, b)
      BY <3>2, <3>4, PrevailsMeans DEF PrevailInv
    <3>6. CorrectedTime(b, k.type)' = CorrectedTime(b, k.type)
      BY <1>5, <3>4
    <3> QED BY <3>3, <3>5, <3>6, SaysStill DEF Says
  <2> QED BY <2>1, <2>2
<1>8. CorrectionsPrevail'
  BY <1>7, PrevailsMeansNext
<1>9. DecidedExist'
  <2>1. \A i \in 1..n : correction'[decisions'[i].of] # NoCorrection
    BY <1>4, <1>5 DEF PrevailInv, DecidedExist
  <2>2. correction'[decisions'[n + 1].of] # NoCorrection
    BY <1>1, <1>3, <1>4, <1>5
  <2>3. \A i \in 1..(n + 1) : i \in 1..n \/ i = n + 1
    BY <1>4
  <2> QED BY <1>4, <2>1, <2>2, <2>3 DEF DecidedExist
<1> QED BY <1>8, <1>9 DEF PrevailInv

LEMMA InitPrevails == Init => PrevailInv
  BY DEF Init, PrevailInv, DecidedExist, CorrectionsPrevail, Approvals

LEMMA PrevailStep == DayInv /\ PrevailInv /\ [Next]_vars => PrevailInv'
<1> SUFFICES ASSUME DayInv, PrevailInv, [Next]_vars PROVE PrevailInv'
  OBVIOUS
<1>1. CASE Tick
  BY <1>1, RowsSaySame DEF Tick
<1>2. ASSUME NEW r \in Records, RecordStep(r) PROVE PrevailInv'
  BY <1>2, RecordPrevails
<1>3. ASSUME NEW c \in Corrections, CorrectionStep(c) PROVE PrevailInv'
  BY <1>3, SubmissionPrevails, DecisionPrevails DEF CorrectionStep
<1>4. ASSUME NEW w \in Workers, JobStep(w) PROVE PrevailInv'
  BY <1>4, JobPrevails
<1>5. CASE UNCHANGED vars
  BY <1>5, RowsSaySame DEF vars
<1> QED BY <1>1, <1>2, <1>3, <1>4, <1>5 DEF Next

(* The row of a check-in or check-out says what its last approved correction *)
(* says, whoever records, corrects and removes photos at the same time.      *)
THEOREM LastCorrectionHolds == Spec => []CorrectionsPrevail
<1>1. PrevailInv => CorrectionsPrevail
  BY DEF PrevailInv
<1> QED BY <1>1, InitDay, DayStep, InitPrevails, PrevailStep, PTL DEF Spec
-----------------------------------------------------------------------------
(* Photos.  A photo belongs to one call and then to one row: the call that   *)
(* failed may share it with the row it inserted all the same.                *)
Holding(r) == record[r] # NoRecord /\ record[r].step \in {"uploaded", "failed"}

Shows(k, p) == row[k] # NoRow /\ row[k].photo = Location(p)

CallsOwn ==
  \A r \in Records : record[r] # NoRecord =>
    /\ Holding(r) => record[r].photo \in Photos
    /\ ~ Holding(r) => record[r].photo = NoPhoto

NoneShared ==
  \A r, s \in Records : Holding(r) /\ Holding(s) /\ record[r].photo = record[s].photo => r = s

CallsShowOnce ==
  \A r \in Records, k \in Keys :
    Holding(r) /\ Shows(k, record[r].photo) => record[r].step = "failed" /\ k = record[r].key

RowsShowOnce == \A k, l \in Keys, p \in Photos : Shows(k, p) /\ Shows(l, p) => k = l

OwnInv == CallsOwn /\ NoneShared /\ CallsShowOnce /\ RowsShowOnce

(* What a run has claimed is its alone, and stays expired. *)
ClaimsApart ==
  \A w, v \in Workers : job[w] # NoJob /\ job[v] # NoJob /\ w # v =>
    job[w].claimed \cap job[v].claimed = {}

ClaimsExpired ==
  \A w \in Workers : job[w] # NoJob =>
    /\ job[w].todo \cup job[w].cleared \subseteq job[w].claimed
    /\ \A k \in job[w].claimed : Expired(k)

PhotoInv == OwnInv /\ ClaimsApart /\ ClaimsExpired

LEMMA InitPhotos == Init => PhotoInv
  BY DEF Init, PhotoInv, OwnInv, CallsOwn, NoneShared, CallsShowOnce, RowsShowOnce, Holding,
         Shows, ClaimsApart, ClaimsExpired

LEMMA LocationsDiffer ==
  ASSUME NEW p \in Photos, NEW q \in Photos
  PROVE  /\ Location(p) = Location(q) => p = q
         /\ Location(p) # NoPhoto /\ ObjectURL(p) = Location(p)
  BY StorageAssumption DEF Location, ObjectURL, Locations

LEMMA DayGrows == \A t \in Nat : Day(t) <= Day(t + 1)
<1>1. ASSUME NEW t \in Nat PROVE t \div DayLength <= (t + 1) \div DayLength
  BY TimeAssumption
<1> QED BY <1>1 DEF Day

(* The photos of the rows stay, or are gone. *)
PhotosStay ==
  \A k \in Keys : row'[k] # NoRow =>
    row'[k].photo = NoPhoto \/ (row[k] # NoRow /\ row'[k].photo = row[k].photo)

LEMMA ShowsLess ==
  ASSUME PhotosStay, NEW k \in Keys, NEW p \in Photos, Shows(k, p)'
  PROVE  Shows(k, p)
<1>1. Location(p)' = Location(p) /\ Location(p) # NoPhoto
  BY LocationsDiffer DEF Location
<1> QED BY <1>1 DEF PhotosStay, Shows

(* Of a step in which no call goes on. *)
LEMMA OwnStays ==
  ASSUME OwnInv, PhotosStay, UNCHANGED record
  PROVE  OwnInv'
<1>1. \A r : Holding(r)' <=> Holding(r)
  BY DEF Holding
<1>2. CallsOwn' /\ NoneShared'
  BY <1>1 DEF OwnInv, CallsOwn, NoneShared
<1>3. CallsShowOnce'
  BY <1>1, ShowsLess DEF OwnInv, CallsShowOnce, CallsOwn, Holding
<1>4. RowsShowOnce'
  BY ShowsLess DEF OwnInv, RowsShowOnce
<1> QED BY <1>2, <1>3, <1>4 DEF OwnInv

(* Of a step in which the runs keep their claims. *)
LEMMA ClaimsStay ==
  ASSUME DayInv, PhotoInv, UNCHANGED job, now' = now \/ now' = now + 1,
         \A w \in Workers : job[w] # NoJob => \A k \in job[w].claimed :
           row'[k] # NoRow /\ row'[k].photo = row[k].photo
  PROVE  ClaimsApart' /\ ClaimsExpired'
<1>1. Day(now) \in Nat /\ Day(now)' \in Nat /\ Day(now) <= Day(now)'
  <2>1. now \in Nat
    BY TimeAssumption DEF DayInv, TypeOK, Times
  <2>2. Day(now) \in Nat /\ Day(now + 1) \in Nat /\ Day(now) <= Day(now + 1)
    BY <2>1, DayIsNat, DayGrows
  <2> QED BY <2>1, <2>2
<1>2. \A w \in Workers : job[w] # NoJob => \A k \in job[w].claimed : Expired(k)'
  <2> SUFFICES ASSUME NEW w \in Workers, job[w] # NoJob, NEW k \in job[w].claimed
               PROVE  Expired(k)'
    OBVIOUS
  <2>1. k \in Keys /\ k.day \in Nat
    <3>1. k \in Keys
      BY DEF DayInv, TypeOK, Job
    <3> QED BY <3>1, KeyFields, DaysAreNat
  <2>2. Expired(k)
    BY DEF PhotoInv, ClaimsExpired
  <2> QED BY <1>1, <2>1, <2>2, TimeAssumption DEF Expired
<1> QED BY <1>2 DEF PhotoInv, ClaimsApart, ClaimsExpired

(* Call r becomes q, or ends. *)
LEMMA CallsKeepOwn ==
  ASSUME DayInv, OwnInv, NEW r \in Records, NEW q \in Record \cup {NoRecord},
         record' = [record EXCEPT ![r] = q],
         q # NoRecord /\ q.step \in {"uploaded", "failed"} =>
           /\ q.photo \in Photos
           /\ \A s \in Records \ {r} : Holding(s) => record[s].photo # q.photo,
         q # NoRecord /\ q.step \notin {"uploaded", "failed"} => q.photo = NoPhoto
  PROVE  /\ CallsOwn' /\ NoneShared' /\ record'[r] = q
         /\ \A s \in Records \ {r} : record'[s] = record[s] /\ (Holding(s)' <=> Holding(s))
<1>1. record'[r] = q /\ \A s \in Records \ {r} : record'[s] = record[s]
  BY DEF DayInv, TypeOK
<1>2. \A s \in Records \ {r} : Holding(s)' <=> Holding(s)
  BY <1>1 DEF Holding
<1>3. CallsOwn'
  BY <1>1, <1>2 DEF OwnInv, CallsOwn, Holding
<1>4. NoneShared'
  BY <1>1, <1>2 DEF OwnInv, NoneShared, Holding
<1> QED BY <1>1, <1>2, <1>3, <1>4

(* A row that call r inserts shows the photo of r, which no row showed. *)
LEMMA RowInsertedShows ==
  ASSUME DayInv, OwnInv, NEW r \in Records, RecordAt(r, "uploaded"), row[record[r].key] = NoRow,
         row' = [row EXCEPT ![record[r].key] = RecordedRow(r)]
  PROVE  /\ record[r].photo \in Photos /\ record[r].key \in Keys
         /\ \A k \in Keys, p \in Photos :
              Shows(k, p)' <=> Shows(k, p) \/ (k = record[r].key /\ p = record[r].photo)
         /\ \A k \in Keys : ~ Shows(k, record[r].photo)
         /\ \A k \in Keys : row[k] # NoRow => row'[k] = row[k]
<1> DEFINE k0 == record[r].key
           new == RecordedRow(r)
<1>1. record[r] \in Record /\ Holding(r) /\ record[r].step = "uploaded" /\ k0 \in Keys
  BY RecordFields DEF RecordAt, Holding, DayInv, TypeOK
<1>2. record[r].photo \in Photos
  BY <1>1 DEF OwnInv, CallsOwn, Holding
<1>3. new.photo = Location(record[r].photo)
  BY DEF RecordedRow
<1>4. row'[k0] # NoRow
  BY <1>1, InsertedRow, CheckInTyped, AttendanceAbsence, RecordFields, StatusTyped,
     TimeAssumption
     DEF DayInv, TypeOK, RecordedRow, Row, Locations, Punctuality, Times, CallsInv, Holding
<1> HIDE DEF k0, new
<1>5. row'[k0] = new /\ \A k \in Keys \ {k0} : row'[k] = row[k]
  BY <1>1 DEF DayInv, TypeOK, k0, new
<1>6. \A p : Location(p)' = Location(p)
  BY DEF Location
<1>7. \A k \in Keys, p \in Photos :
        Shows(k, p)' <=> Shows(k, p) \/ (k = k0 /\ p = record[r].photo)
  <2> SUFFICES ASSUME NEW k \in Keys, NEW p \in Photos
               PROVE  Shows(k, p)' <=> Shows(k, p) \/ (k = k0 /\ p = record[r].photo)
    OBVIOUS
  <2>1. CASE k = k0
    <3>1. ~ Shows(k, p)
      BY <2>1 DEF Shows, k0
    <3>2. Shows(k, p)' <=> Location(record[r].photo) = Location(p)
      BY <1>3, <1>4, <1>5, <1>6, <2>1 DEF Shows
    <3> QED BY <1>2, <2>1, <3>1, <3>2, LocationsDiffer
  <2>2. CASE k # k0
    BY <1>5, <1>6, <2>2 DEF Shows
  <2> QED BY <2>1, <2>2
<1>8. \A k \in Keys : ~ Shows(k, record[r].photo)
  BY <1>1 DEF OwnInv, CallsShowOnce
<1>9. \A k \in Keys : row[k] # NoRow => row'[k] = row[k]
  BY <1>5 DEF k0
<1> QED BY <1>1, <1>2, <1>7, <1>8, <1>9 DEF k0

(* What the rows show of the calls, when no row is touched. *)
LEMMA NothingShown ==
  ASSUME OwnInv, NEW r \in Records, UNCHANGED row, CallsOwn', NoneShared',
         \A s \in Records \ {r} : record'[s] = record[s] /\ (Holding(s)' <=> Holding(s)),
         ~ Holding(r)'
  PROVE  OwnInv'
<1>1. \A k, p : Shows(k, p)' <=> Shows(k, p)
  BY DEF Shows, Location
<1>2. CallsShowOnce'
  <2> SUFFICES ASSUME NEW s \in Records, NEW k \in Keys, Holding(s)',
                      NEW p, p = record'[s].photo, Shows(k, p)'
               PROVE  record'[s].step = "failed" /\ k = record'[s].key
    BY DEF CallsShowOnce
  <2> QED BY <1>1 DEF OwnInv, CallsShowOnce
<1>3. RowsShowOnce'
  BY <1>1 DEF OwnInv, RowsShowOnce
<1> QED BY <1>2, <1>3 DEF OwnInv

LEMMA CallShows ==
  ASSUME OwnInv, NEW r \in Records, UNCHANGED row, CallsOwn', NoneShared',
         \A s \in Records \ {r} : record'[s] = record[s] /\ (Holding(s)' <=> Holding(s)),
         NEW p, p = record'[r].photo,
         \/ /\ Holding(r) /\ record[r].photo = p /\ record[r].key = record'[r].key
            /\ record'[r].step = "failed"
         \/ \A k \in Keys : ~ Shows(k, p)
  PROVE  OwnInv'
<1>1. \A k, o : Shows(k, o)' <=> Shows(k, o)
  BY DEF Shows, Location
<1>2. CallsShowOnce'
  <2> SUFFICES ASSUME NEW s \in Records, NEW k \in Keys, Holding(s)',
                      NEW o, o = record'[s].photo, Shows(k, o)'
               PROVE  record'[s].step = "failed" /\ k = record'[s].key
    BY DEF CallsShowOnce
  <2>1. CASE s = r
    BY <1>1, <2>1 DEF OwnInv, CallsShowOnce
  <2>2. CASE s # r
    BY <1>1, <2>2 DEF OwnInv, CallsShowOnce
  <2> QED BY <2>1, <2>2
<1>3. RowsShowOnce'
  BY <1>1 DEF OwnInv, RowsShowOnce
<1> QED BY <1>2, <1>3 DEF OwnInv

(* A call inserts its row and ends, or is told that it failed. *)
LEMMA InsertionShows ==
  ASSUME DayInv, OwnInv, NEW r \in Records, RecordAt(r, "uploaded"), row[record[r].key] = NoRow,
         row' = [row EXCEPT ![record[r].key] = RecordedRow(r)],
         NEW q \in Record \cup {NoRecord}, record' = [record EXCEPT ![r] = q],
         q # NoRecord => /\ q.step = "failed" /\ q.photo = record[r].photo
                         /\ q.key = record[r].key
  PROVE  OwnInv'
<1>0. Holding(r) /\ record[r].photo \in Photos
  BY DEF RecordAt, Holding, OwnInv, CallsOwn
<1>1. /\ record[r].key \in Keys
      /\ \A k \in Keys, p \in Photos :
           Shows(k, p)' <=> Shows(k, p) \/ (k = record[r].key /\ p = record[r].photo)
      /\ \A k \in Keys : ~ Shows(k, record[r].photo)
  BY RowInsertedShows
<1>2. \A s \in Records \ {r} : Holding(s) => record[s].photo # record[r].photo
  BY <1>0 DEF OwnInv, NoneShared
<1>3. /\ CallsOwn' /\ NoneShared' /\ record'[r] = q
      /\ \A s \in Records \ {r} : record'[s] = record[s] /\ (Holding(s)' <=> Holding(s))
  BY <1>0, <1>2, CallsKeepOwn
<1>4. CallsShowOnce'
  <2> SUFFICES ASSUME NEW s \in Records, NEW k \in Keys, Holding(s)',
                      NEW p, p = record'[s].photo, Shows(k, p)'
               PROVE  record'[s].step = "failed" /\ k = record'[s].key
    BY DEF CallsShowOnce
  <2>0. p \in Photos /\ record'[s] # NoRecord
    BY <1>3 DEF CallsOwn, Holding
  <2>1. CASE s = r
    BY <1>1, <1>3, <2>0, <2>1
  <2>2. CASE s # r
    <3>1. Holding(s) /\ p = record[s].photo /\ p # record[r].photo
      BY <1>2, <1>3, <2>2
    <3>2. Shows(k, p)
      BY <1>1, <2>0, <3>1
    <3> QED BY <1>3, <2>2, <3>1, <3>2 DEF OwnInv, CallsShowOnce
  <2> QED BY <2>1, <2>2
<1>5. RowsShowOnce'
  BY <1>1 DEF OwnInv, RowsShowOnce
<1> QED BY <1>3, <1>4, <1>5 DEF OwnInv

LEMMA RecordKeepsPhotos ==
  ASSUME DayInv, PhotoInv, NEW r \in Records, RecordStep(r)
  PROVE  PhotoInv'
<1>0. /\ OwnInv /\ CallsOwn /\ NoneShared /\ CallsShowOnce /\ RowsShowOnce
      /\ record \in [Records -> Record \cup {NoRecord}]
  BY DEF PhotoInv, OwnInv, DayInv, TypeOK
<1>1. /\ UNCHANGED <<now, job>>
      /\ \A k \in Keys : row[k] # NoRow => row'[k] = row[k]
  BY RowInsertedShows, <1>0 DEF RecordStep, BeginRecord, CheckSequence, UploadPhoto, Create,
     CreateFails, TakeBackPhoto, GiveUpRecord
<1>2. ClaimsApart' /\ ClaimsExpired'
  <2>1. \A w \in Workers : job[w] # NoJob => \A k \in job[w].claimed :
           k \in Keys /\ row[k] # NoRow
    BY DEF PhotoInv, ClaimsExpired, Expired, DayInv, TypeOK, Job
  <2> QED BY <1>1, <2>1, ClaimsStay
<1>3. ASSUME NEW u \in Users, NEW type \in Types, BeginRecord(r, u, type) PROVE OwnInv'
  <2> DEFINE q == [step |-> "begun", key |-> Key(u, Day(now), type), time |-> now,
                   photo |-> NoPhoto]
  <2>1. record' = [record EXCEPT ![r] = q] /\ UNCHANGED row
    BY <1>3 DEF BeginRecord
  <2>2. Day(now) \in Days
    BY DEF DayInv, TypeOK, Days
  <2>3. q \in Record /\ q.step = "begun" /\ q.photo = NoPhoto
    BY <2>2, KeyTyped DEF Record, DayInv, TypeOK
  <2> HIDE DEF q
  <2>4. /\ CallsOwn' /\ NoneShared' /\ record'[r] = q
        /\ \A s \in Records \ {r} : record'[s] = record[s] /\ (Holding(s)' <=> Holding(s))
    BY <1>0, <2>1, <2>3, CallsKeepOwn
  <2>5. ~ Holding(r)'
    BY <2>3, <2>4 DEF Holding
  <2> QED BY <1>0, <2>1, <2>4, <2>5, NothingShown
<1>4. ASSUME CheckSequence(r) PROVE OwnInv'
  <2> DEFINE q == [record[r] EXCEPT !.step = "checked"]
  <2>1. /\ record[r] # NoRecord /\ record[r].step = "begun" /\ UNCHANGED row
        /\ record' = [record EXCEPT ![r] = q]
    BY <1>4 DEF CheckSequence, RecordAt
  <2>2. record[r] \in Record /\ record[r].photo = NoPhoto
    BY <1>0, <2>1 DEF CallsOwn, Holding
  <2>3. q \in Record /\ q.step = "checked" /\ q.photo = NoPhoto
    BY <2>2 DEF Record
  <2> HIDE DEF q
  <2>4. /\ CallsOwn' /\ NoneShared' /\ record'[r] = q
        /\ \A s \in Records \ {r} : record'[s] = record[s] /\ (Holding(s)' <=> Holding(s))
    BY <1>0, <2>1, <2>3, CallsKeepOwn
  <2>5. ~ Holding(r)'
    BY <2>3, <2>4 DEF Holding
  <2> QED BY <1>0, <2>1, <2>4, <2>5, NothingShown
<1>5. ASSUME NEW p \in Photos, UploadPhoto(r, p) PROVE OwnInv'
  <2> DEFINE q == [record[r] EXCEPT !.step = "uploaded", !.photo = p]
  <2>1. /\ record[r] # NoRecord /\ record[r].step = "checked" /\ UNCHANGED row
        /\ record' = [record EXCEPT ![r] = q] /\ NewPhoto(p)
    BY <1>5 DEF UploadPhoto, RecordAt
  <2>2. record[r] \in Record
    BY <1>0, <2>1
  <2>3. q \in Record /\ q.step = "uploaded" /\ q.photo = p
    BY <2>2 DEF Record
  <2> HIDE DEF q
  <2>4. \A s \in Records \ {r} : Holding(s) => record[s].photo # q.photo
    BY <2>1, <2>3 DEF NewPhoto, Holding
  <2>5. /\ CallsOwn' /\ NoneShared' /\ record'[r] = q
        /\ \A s \in Records \ {r} : record'[s] = record[s] /\ (Holding(s)' <=> Holding(s))
    BY <1>0, <2>1, <2>3, <2>4, CallsKeepOwn
  <2>6. \A k \in Keys : ~ Shows(k, record'[r].photo)
    BY <2>1, <2>3, <2>5 DEF NewPhoto, Shows
  <2> QED BY <1>0, <2>1, <2>5, <2>6, CallShows
<1>6. ASSUME TakeBackPhoto(r) \/ GiveUpRecord(r) PROVE OwnInv'
  <2>1. record' = [record EXCEPT ![r] = NoRecord] /\ UNCHANGED row
    BY <1>6 DEF TakeBackPhoto, GiveUpRecord, Answer
  <2>2. /\ CallsOwn' /\ NoneShared' /\ record'[r] = NoRecord
        /\ \A s \in Records \ {r} : record'[s] = record[s] /\ (Holding(s)' <=> Holding(s))
    BY <1>0, <2>1, CallsKeepOwn
  <2>3. ~ Holding(r)'
    BY <2>2 DEF Holding
  <2> QED BY <1>0, <2>1, <2>2, <2>3, NothingShown
<1>7. ASSUME Create(r) PROVE OwnInv'
  BY <1>0, <1>7, InsertionShows DEF Create, Answer
<1>8. ASSUME CreateFails(r) PROVE OwnInv'
  <2> DEFINE q == [record[r] EXCEPT !.step = "failed"]
  <2>1. /\ record[r] # NoRecord /\ record[r].step = "uploaded" /\ RecordAt(r, "uploaded")
        /\ record' = [record EXCEPT ![r] = q]
    BY <1>8 DEF CreateFails, RecordAt
  <2>2. record[r] \in Record /\ Holding(r) /\ record[r].photo \in Photos
    BY <1>0, <2>1 DEF CallsOwn, Holding
  <2>3. /\ q \in Record /\ q.step = "failed" /\ q.photo = record[r].photo
        /\ q.key = record[r].key
    BY <2>2 DEF Record
  <2> HIDE DEF q
  <2>4. CASE UNCHANGED row
    <3>1. \A s \in Records \ {r} : Holding(s) => record[s].photo # q.photo
      BY <1>0, <2>2, <2>3 DEF NoneShared
    <3>2. /\ CallsOwn' /\ NoneShared' /\ record'[r] = q
          /\ \A s \in Records \ {r} : record'[s] = record[s] /\ (Holding(s)' <=> Holding(s))
      BY <1>0, <2>1, <2>2, <2>3, <3>1, CallsKeepOwn
    <3> QED BY <1>0, <2>2, <2>3, <2>4, <3>2, CallShows
  <2>5. CASE /\ row[record[r].key] = NoRow
             /\ row' = [row EXCEPT ![record[r].key] = RecordedRow(r)]
    BY <1>0, <2>1, <2>3, <2>5, InsertionShows
  <2> QED BY <1>8, <2>4, <2>5 DEF CreateFails
<1> QED BY <1>2, <1>3, <1>4, <1>5, <1>6, <1>7, <1>8 DEF RecordStep, PhotoInv

LEMMA CorrectionKeepsPhotos ==
  ASSUME DayInv, PhotoInv, NEW c \in Corrections, CorrectionStep(c)
  PROVE  PhotoInv'
<1>0. UNCHANGED <<now, record, job>>
  BY DEF CorrectionStep, CreateCorrection, DecideCorrection
<1>1. ASSUME correction[c] # NoCorrection, ApplyCorrection(c)
      PROVE  \A k \in Keys : \/ row'[k] = row[k]
                             \/ /\ k \in CorrectedKeys(c)
                                /\ row'[k].photo = IF row[k] = NoRow THEN NoPhoto ELSE row[k].photo
  <2> SUFFICES ASSUME NEW k \in Keys, k \in CorrectedKeys(c), row'[k] = CorrectedRow(c, k.type)
               PROVE  row'[k].photo = IF row[k] = NoRow THEN NoPhoto ELSE row[k].photo
    BY <1>1, CorrectionApplied
  <2> DEFINE t == CorrectedTime(c, k.type)
  <2>1. k = Key(correction[c].user, correction[c].day, k.type)
    BY <1>1, CorrectedTimeOfDay DEF DayInv
  <2> HIDE DEF t
  <2>2. CASE row[k] = NoRow
    BY <2>1, <2>2 DEF CorrectedRow
  <2>3. CASE row[k] # NoRow
    <3>1. row[k] \in Row
      BY <2>3 DEF DayInv, TypeOK
    <3>2. row'[k] = [row[k] EXCEPT !.time = t, !.status = StatusAt(k.type, t)]
      BY <2>1, <2>3 DEF CorrectedRow, t
    <3> QED BY <2>3, <3>1, <3>2 DEF Row
  <2> QED BY <2>2, <2>3
<1>2. \A k \in Keys : \/ row'[k] = row[k]
                      \/ row'[k].photo = IF row[k] = NoRow THEN NoPhoto ELSE row[k].photo
  BY <1>1 DEF CorrectionStep, CreateCorrection, DecideCorrection, MayDecideCorrection
<1>3. \A k \in Keys : row[k] # NoRow => row'[k] # NoRow
  <2>1. \/ UNCHANGED row
        \/ correction[c] # NoCorrection /\ ApplyCorrection(c)
    BY DEF CorrectionStep, CreateCorrection, DecideCorrection, MayDecideCorrection
  <2> QED BY <2>1, CorrectionApplied DEF RowsGrow
<1>4. PhotosStay
  BY <1>2 DEF PhotosStay
<1>5. \A w \in Workers : job[w] # NoJob => \A k \in job[w].claimed : k \in Keys /\ row[k] # NoRow
  BY DEF PhotoInv, ClaimsExpired, Expired, DayInv, TypeOK, Job
<1>6. ClaimsApart' /\ ClaimsExpired'
  BY <1>0, <1>2, <1>3, <1>5, ClaimsStay
<1> QED BY <1>0, <1>4, <1>6, OwnStays DEF PhotoInv

(* Of a run that becomes j, or ends. *)
LEMMA ClaimsMove ==
  ASSUME DayInv, PhotoInv, NEW w \in Workers, NEW j \in Job \cup {NoJob},
         job' = [job EXCEPT ![w] = j], UNCHANGED now,
         \A v \in Workers \ {w} : job[v] # NoJob => \A k \in job[v].claimed :
           row'[k] # NoRow /\ row'[k].photo = row[k].photo,
         j # NoJob =>
           /\ UNCHANGED row
           /\ j.todo \cup j.cleared \subseteq j.claimed
           /\ \A k \in j.claimed : Expired(k)
           /\ \A v \in Workers \ {w} : job[v] # NoJob => j.claimed \cap job[v].claimed = {}
  PROVE  ClaimsApart' /\ ClaimsExpired'
<1>1. job'[w] = j /\ \A v \in Workers \ {w} : job'[v] = job[v]
  BY DEF DayInv, TypeOK
<1>2. ClaimsApart'
  BY <1>1 DEF PhotoInv, ClaimsApart
<1>3. \A v \in Workers \ {w} : job[v] # NoJob => \A k \in job[v].claimed : Expired(k)'
  BY DEF PhotoInv, ClaimsExpired, Expired
<1>4. j # NoJob => \A k \in j.claimed : Expired(k)'
  BY DEF Expired
<1>5. ClaimsExpired'
  BY <1>1, <1>3, <1>4 DEF PhotoInv, ClaimsExpired
<1> QED BY <1>2, <1>5

LEMMA JobKeepsPhotos ==
  ASSUME DayInv, PhotoInv, NEW w \in Workers, JobStep(w)
  PROVE  PhotoInv'
<1>0. /\ job \in [Workers -> Job \cup {NoJob}] /\ OwnInv /\ ClaimsApart /\ ClaimsExpired
      /\ UNCHANGED <<now, record>>
  BY DEF DayInv, TypeOK, PhotoInv, JobStep, ClaimExpiredPhotos, ProcessPhoto, DeletePhoto,
     DeletePhotoFails, CommitJob, RollbackJob
<1>1. \A v \in Workers : job[v] # NoJob =>
        /\ job[v] \in Job /\ job[v].todo \cup job[v].cleared \subseteq job[v].claimed
        /\ \A k \in job[v].claimed : k \in Keys /\ Expired(k) /\ row[k] # NoRow
  BY <1>0 DEF ClaimsExpired, Expired, Job
<1>2. UNCHANGED row => PhotosStay
  BY DEF PhotosStay
<1>3. ASSUME NEW batch \in SUBSET Keys, ClaimExpiredPhotos(w, batch) PROVE PhotoInv'
  <2> DEFINE j == [todo |-> batch, cleared |-> {}, claimed |-> batch]
  <2>1. /\ job' = [job EXCEPT ![w] = j] /\ UNCHANGED row
        /\ batch \subseteq {k \in Keys : Expired(k)} \ Claimed
    BY <1>3 DEF ClaimExpiredPhotos
  <2>2. \A v \in Workers : job[v] # NoJob => batch \cap job[v].claimed = {}
    BY <2>1 DEF Claimed
  <2>3. j \in Job /\ j.todo = batch /\ j.cleared = {} /\ j.claimed = batch
    BY DEF Job
  <2> HIDE DEF j
  <2>4. ClaimsApart' /\ ClaimsExpired'
    BY <1>0, <1>1, <2>1, <2>2, <2>3, ClaimsMove
  <2> QED BY <1>0, <1>2, <2>1, <2>4, OwnStays DEF PhotoInv
<1>4. ASSUME NEW k \in Keys, DeletePhoto(w, k) \/ DeletePhotoFails(w, k) PROVE PhotoInv'
  <2>1. PICK j \in Job : /\ job' = [job EXCEPT ![w] = j] /\ job[w] # NoJob /\ UNCHANGED row
                         /\ j.claimed = job[w].claimed
                         /\ j.todo \cup j.cleared \subseteq job[w].todo \cup job[w].cleared
    <3>1. job[w] # NoJob /\ k \in job[w].todo /\ job[w] \in Job
      BY <1>1, <1>4 DEF DeletePhoto, DeletePhotoFails
    <3>2. CASE DeletePhoto(w, k)
      <4> DEFINE j == [job[w] EXCEPT !.todo = @ \ {k}, !.cleared = @ \cup {k}]
      <4>1. /\ j \in Job /\ j.claimed = job[w].claimed /\ j.todo = job[w].todo \ {k}
            /\ j.cleared = job[w].cleared \cup {k}
        BY <3>1 DEF Job
      <4>2. job' = [job EXCEPT ![w] = j] /\ UNCHANGED row
        BY <3>2 DEF DeletePhoto
      <4> HIDE DEF j
      <4> QED BY <3>1, <4>1, <4>2
    <3>3. CASE DeletePhotoFails(w, k)
      <4> DEFINE j == [job[w] EXCEPT !.todo = @ \ {k}]
      <4>1. /\ j \in Job /\ j.claimed = job[w].claimed /\ j.todo = job[w].todo \ {k}
            /\ j.cleared = job[w].cleared
        BY <3>1 DEF Job
      <4>2. job' = [job EXCEPT ![w] = j] /\ UNCHANGED row
        BY <3>3 DEF DeletePhotoFails
      <4> HIDE DEF j
      <4> QED BY <3>1, <4>1, <4>2
    <3> QED BY <1>4, <3>2, <3>3
  <2>2. \A v \in Workers \ {w} : job[v] # NoJob => j.claimed \cap job[v].claimed = {}
    BY <1>0, <2>1 DEF ClaimsApart
  <2>3. ClaimsApart' /\ ClaimsExpired'
    BY <1>0, <1>1, <2>1, <2>2, ClaimsMove
  <2> QED BY <1>0, <1>2, <2>1, <2>3, OwnStays DEF PhotoInv
<1>5. CASE CommitJob(w)
  <2>1. /\ job[w] # NoJob /\ job' = [job EXCEPT ![w] = NoJob]
        /\ row' = [k \in Keys |-> IF k \in job[w].cleared THEN [row[k] EXCEPT !.photo = NoPhoto]
                                                          ELSE row[k]]
    BY <1>5 DEF CommitJob
  <2>2. \A k \in job[w].cleared : row[k] \in Row /\ [row[k] EXCEPT !.photo = NoPhoto].photo = NoPhoto
    BY <1>1, <2>1 DEF DayInv, TypeOK, Row
  <2>3. PhotosStay
    BY <2>1, <2>2 DEF PhotosStay
  <2>4. \A v \in Workers \ {w} : job[v] # NoJob => \A k \in job[v].claimed :
          row'[k] # NoRow /\ row'[k].photo = row[k].photo
    BY <1>0, <1>1, <2>1 DEF ClaimsApart
  <2>5. ClaimsApart' /\ ClaimsExpired'
    BY <1>0, <2>1, <2>4, ClaimsMove
  <2> QED BY <1>0, <2>3, <2>5, OwnStays DEF PhotoInv
<1>6. CASE RollbackJob(w)
  <2>1. job' = [job EXCEPT ![w] = NoJob] /\ UNCHANGED row
    BY <1>6 DEF RollbackJob
  <2>2. ClaimsApart' /\ ClaimsExpired'
    BY <1>0, <1>1, <2>1, ClaimsMove
  <2> QED BY <1>0, <1>2, <2>1, <2>2, OwnStays DEF PhotoInv
<1> QED BY <1>3, <1>4, <1>5, <1>6 DEF JobStep, ProcessPhoto

LEMMA PhotoStep == DayInv /\ PhotoInv /\ [Next]_vars => PhotoInv'
<1> SUFFICES ASSUME DayInv, PhotoInv, [Next]_vars PROVE PhotoInv'
  OBVIOUS
<1>1. CASE Tick \/ UNCHANGED vars
  <2>1. /\ UNCHANGED <<row, record, job>> /\ (now' = now \/ now' = now + 1)
    BY <1>1 DEF Tick, vars
  <2>2. PhotosStay
    BY <2>1 DEF PhotosStay
  <2>3. \A w \in Workers : job[w] # NoJob => \A k \in job[w].claimed : row'[k] # NoRow
    BY <2>1 DEF PhotoInv, ClaimsExpired, Expired
  <2> QED BY <2>1, <2>2, <2>3, OwnStays, ClaimsStay DEF PhotoInv
<1>2. ASSUME NEW r \in Records, RecordStep(r) PROVE PhotoInv'
  BY <1>2, RecordKeepsPhotos
<1>3. ASSUME NEW c \in Corrections, CorrectionStep(c) PROVE PhotoInv'
  BY <1>3, CorrectionKeepsPhotos
<1>4. ASSUME NEW w \in Workers, JobStep(w) PROVE PhotoInv'
  BY <1>4, JobKeepsPhotos
<1> QED BY <1>1, <1>2, <1>3, <1>4 DEF Next

(* What a step takes out of the storage. *)
Kept ==
  \A k \in Keys :
    row[k] # NoRow /\ Stored(storage, row[k].photo) /\ ~ Stored(storage', row[k].photo)
      => \/ Expired(k)
         \/ \E r \in Records : RecordAt(r, "failed") /\ record[r].key = k

LEMMA StepKeepsPhotos == DayInv /\ PhotoInv /\ [Next]_vars => Kept
<1> SUFFICES ASSUME DayInv, PhotoInv, [Next]_vars,
                    NEW k \in Keys, row[k] # NoRow, NEW p, p = row[k].photo,
                    Stored(storage, p), ~ Stored(storage', p)
             PROVE  \/ Expired(k)
                    \/ \E r \in Records : RecordAt(r, "failed") /\ record[r].key = k
  BY DEF Kept
<1>0. storage \subseteq {ObjectURL(q) : q \in Photos}
  BY DEF DayInv, TypeOK
<1>1. PICK path \in Photos : p = Location(path)
  BY <1>0, LocationsDiffer DEF Stored
<1>2. \/ \E r \in Records : TakeBackPhoto(r)
      \/ \E w \in Workers, l \in Keys : DeletePhoto(w, l)
  <2>1. ~ (storage \subseteq storage')
    BY DEF Stored
  <2> QED BY <2>1 DEF Next, vars, Tick, RecordStep, BeginRecord, CheckSequence, UploadPhoto, Upload,
        Create, CreateFails, GiveUpRecord, CorrectionStep, CreateCorrection, DecideCorrection,
        JobStep, ClaimExpiredPhotos, ProcessPhoto, DeletePhotoFails, CommitJob, RollbackJob
<1>3. ASSUME NEW r \in Records, TakeBackPhoto(r)
      PROVE  RecordAt(r, "failed") /\ record[r].key = k
  <2>1. RecordAt(r, "failed") /\ Holding(r) /\ p = ObjectURL(record[r].photo)
    BY <1>3 DEF TakeBackPhoto, RecordAt, Holding, Delete, Stored
  <2>2. record[r].photo \in Photos
    BY <2>1 DEF PhotoInv, OwnInv, CallsOwn, Holding
  <2>3. Shows(k, record[r].photo)
    BY <2>1, <2>2, LocationsDiffer DEF Shows
  <2> QED BY <2>1, <2>3 DEF PhotoInv, OwnInv, CallsShowOnce
<1>4. ASSUME NEW w \in Workers, NEW l \in Keys, DeletePhoto(w, l)
      PROVE  Expired(k)
  <2>1. /\ job[w] # NoJob /\ l \in job[w].todo
        /\ CanDelete(storage, row[l].photo) /\ p = ObjectURL(row[l].photo)
    BY <1>4 DEF DeletePhoto, Delete, Stored
  <2>2. Expired(l)
    BY <2>1 DEF PhotoInv, ClaimsExpired
  <2>3. PICK q \in Photos : row[l].photo = Location(q)
    BY <2>2 DEF Expired, DayInv, TypeOK, Row, Locations
  <2>4. CASE Driver = "nextcloud"
    <3>1. PICK o \in Photos : ObjectURL(Location(q)) = ObjectURL(o)
      BY <1>0, <2>1, <2>3, <2>4 DEF CanDelete
    <3>2. Location(q) = o
      BY <2>4, <3>1 DEF ObjectURL
    <3> QED BY <2>4, <3>2, FolderAssumption DEF Locations
  <2>5. CASE Driver # "nextcloud"
    <3>1. p = row[l].photo
      BY <2>1, <2>5 DEF ObjectURL
    <3>2. Shows(k, q) /\ Shows(l, q)
      BY <2>2, <2>3, <3>1 DEF Shows, Expired
    <3>3. k = l
      BY <3>2 DEF PhotoInv, OwnInv, RowsShowOnce
    <3> QED BY <2>2, <3>3
  <2> QED BY <2>4, <2>5
<1> QED BY <1>2, <1>3, <1>4

(* A photo goes from under its row only when it has expired, or with the     *)
(* call that was told that its row was not inserted: no run and no call      *)
(* takes away the photo of another row, on either storage.                   *)
THEOREM PhotosStayKept == Spec => PhotosAreKept
<1>1. DayInv /\ PhotoInv /\ [Next]_vars => [Kept]_vars
  BY StepKeepsPhotos
<1>2. Spec => [][Kept]_vars
  BY <1>1, InitDay, DayStep, InitPhotos, PhotoStep, PTL DEF Spec
<1> QED BY <1>2 DEF PhotosAreKept, Kept
-----------------------------------------------------------------------------
(* The stages of a correction. *)
Staged(c) ==
  LET u == correction[c].user
      s == correction[c].status
      n == Cardinality(DecisionsOf(c)) IN
  /\ n <= Len(Route(u))
  /\ \A i \in DecisionsOf(c) :
       LET d == decisions[i] IN
       /\ d.stage = Route(u)[Place(i)]
       /\ IF d.stage = "atasan" THEN d.by = Boss[u] ELSE Role[d.by] = d.stage
       /\ d.decision = "reject" => Place(i) = n
  /\ IF Refused(c) THEN s = "ditolak"
     ELSE IF n = Len(Route(u)) THEN s = "disetujui"
     ELSE s \in Pending /\ StageForStatus(s) = Route(u)[n + 1]

LEMMA StagedIs ==
  DecidedInStages <=> \A c \in Corrections : correction[c] # NoCorrection => Staged(c)
  BY DEF DecidedInStages, Staged

(* The routes, and the status at which a request enters its route. *)
LEMMA Routes ==
  ASSUME NEW u \in Users
  PROVE  /\ Route(u) \in {<<"atasan", "hr">>, <<"top_management">>, <<"hr">>}
         /\ Len(Route(u)) \in {1, 2}
         /\ \A s \in InitialStatusForRole(Role[u], Boss[u] # NoUser) :
              s \in Pending /\ StageForStatus(s) = Route(u)[1]
<1>1. Role[u] \in Roles
  BY DirectoryAssumption
<1>2. CASE Role[u] = "karyawan" /\ Boss[u] # NoUser
  BY <1>2 DEF Route, InitialStatusForRole, StageForStatus, Pending
<1>3. CASE Role[u] = "hr"
  BY <1>3 DEF Route, InitialStatusForRole, StageForStatus, Pending
<1>4. CASE ~ (Role[u] = "karyawan" /\ Boss[u] # NoUser) /\ Role[u] # "hr"
  BY <1>1, <1>4 DEF Route, InitialStatusForRole, StageForStatus, Pending, Roles
<1> QED BY <1>2, <1>3, <1>4

(* An approval by the supervisor leads to HR, any other to the end. *)
LEMMA ApprovalLeads ==
  ASSUME NEW s \in Pending
  PROVE  /\ StageForStatus(s) = "atasan" =>
              /\ NextStatusAfterApprove(s) \in Pending
              /\ StageForStatus(NextStatusAfterApprove(s)) = "hr"
         /\ StageForStatus(s) # "atasan" => NextStatusAfterApprove(s) = "disetujui"
  BY DEF NextStatusAfterApprove, StageForStatus, Pending

(* Where a decision at status s of a route leaves the request. *)
LEMMA RouteGoesOn ==
  ASSUME NEW u \in Users, NEW n \in Nat, n < Len(Route(u)), NEW s \in Pending,
         StageForStatus(s) = Route(u)[n + 1]
  PROVE  /\ n + 1 = Len(Route(u)) => NextStatusAfterApprove(s) = "disetujui"
         /\ n + 1 # Len(Route(u)) =>
              /\ NextStatusAfterApprove(s) \in Pending
              /\ StageForStatus(NextStatusAfterApprove(s)) = Route(u)[n + 2]
<1>1. CASE Route(u) = <<"atasan", "hr">>
  <2>1. n \in {0, 1} /\ Len(Route(u)) = 2 /\ Route(u)[1] = "atasan" /\ Route(u)[2] = "hr"
    BY <1>1
  <2>2. CASE n = 0
    <3>1. n + 1 = 1 /\ n + 2 = 2 /\ StageForStatus(s) = "atasan"
      BY <2>1, <2>2
    <3> QED BY <2>1, <3>1, ApprovalLeads
  <2>3. CASE n = 1
    <3>1. n + 1 = 2 /\ StageForStatus(s) # "atasan"
      BY <2>1, <2>3
    <3> QED BY <2>1, <3>1, ApprovalLeads
  <2> QED BY <2>1, <2>2, <2>3
<1>2. CASE Route(u) \in {<<"top_management">>, <<"hr">>}
  <2>1. n = 0 /\ Len(Route(u)) = 1 /\ Route(u)[1] # "atasan"
    BY <1>2
  <2>2. n + 1 = 1 /\ StageForStatus(s) # "atasan"
    BY <2>1
  <2> QED BY <2>1, <2>2, ApprovalLeads
<1> QED BY <1>1, <1>2, Routes

LEMMA DecisionsFinite ==
  ASSUME decisions \in Seq(Decision), NEW c
  PROVE  /\ DecisionsOf(c) \subseteq 1..Len(decisions) /\ IsFiniteSet(DecisionsOf(c))
         /\ Cardinality(DecisionsOf(c)) \in Nat
<1>1. Len(decisions) \in Nat /\ DecisionsOf(c) \subseteq 1..Len(decisions)
  BY DEF DecisionsOf
<1>2. IsFiniteSet(1..Len(decisions))
  BY <1>1, FS_Interval
<1>3. IsFiniteSet(DecisionsOf(c))
  BY <1>1, <1>2, FS_Subset
<1> QED BY <1>1, <1>3, FS_CardinalityType

(* One more decision: its place is after those of the same correction. *)
LEMMA OneMoreDecision ==
  ASSUME decisions \in Seq(Decision), NEW e \in Decision, decisions' = Append(decisions, e),
         NEW n \in Nat, n = Len(decisions)
  PROVE  /\ decisions'[n + 1] = e /\ n + 1 \notin DecisionsOf(e.of)
         /\ DecisionsOf(e.of)' = DecisionsOf(e.of) \cup {n + 1}
         /\ Cardinality(DecisionsOf(e.of)') = Cardinality(DecisionsOf(e.of)) + 1
         /\ \A c : c # e.of => DecisionsOf(c)' = DecisionsOf(c)
         /\ \A i \in 1..n : decisions'[i] = decisions[i] /\ Place(i)' = Place(i)
         /\ Place(n + 1)' = Cardinality(DecisionsOf(e.of)) + 1
<1>1. /\ Len(decisions') = n + 1 /\ decisions'[n + 1] = e
      /\ \A i \in 1..n : decisions'[i] = decisions[i]
  OBVIOUS
<1>2. \A c, i : /\ i \in DecisionsOf(c) <=> i \in 1..n /\ decisions[i].of = c
                /\ i \in DecisionsOf(c)' <=> i \in 1..(n + 1) /\ decisions'[i].of = c
  BY <1>1 DEF DecisionsOf
<1>3. /\ n + 1 \notin DecisionsOf(e.of) /\ DecisionsOf(e.of)' = DecisionsOf(e.of) \cup {n + 1}
      /\ \A c : c # e.of => DecisionsOf(c)' = DecisionsOf(c)
  <2>1. \A i : i \in 1..(n + 1) <=> i \in 1..n \/ i = n + 1
    OBVIOUS
  <2>2. n + 1 \notin 1..n
    OBVIOUS
  <2>3. \A c, i : i \in DecisionsOf(c)' <=> i \in DecisionsOf(c) \/ (i = n + 1 /\ c = e.of)
    BY <1>1, <1>2, <2>1
  <2> QED BY <1>2, <2>2, <2>3
<1>4. Cardinality(DecisionsOf(e.of)') = Cardinality(DecisionsOf(e.of)) + 1
  <2>1. PICK S : S = DecisionsOf(e.of)
    OBVIOUS
  <2>2. IsFiniteSet(S) /\ n + 1 \notin S
    BY <1>3, <2>1, DecisionsFinite
  <2>3. Cardinality(S \cup {n + 1}) = Cardinality(S) + 1
    BY ONLY <2>2, FS_AddElement
  <2> QED BY <1>3, <2>1, <2>3
<1>5. ASSUME NEW i \in 1..n PROVE Place(i)' = Place(i)
  <2>1. PICK c : c = decisions[i].of /\ c = decisions'[i].of
    BY <1>1
  <2>2. Place(i)' = Cardinality({j \in DecisionsOf(c)' : j <= i})
    BY <2>1 DEF Place, DecisionsOf
  <2>3. Place(i) = Cardinality({j \in DecisionsOf(c) : j <= i})
    BY <2>1 DEF Place
  <2>4. {j \in DecisionsOf(c)' : j <= i} = {j \in DecisionsOf(c) : j <= i}
    BY <1>1, <1>2
  <2> QED BY <2>2, <2>3, <2>4
<1>6. Place(n + 1)' = Cardinality(DecisionsOf(e.of)) + 1
  <2>1. PICK c : c = e.of /\ c = decisions'[n + 1].of
    BY <1>1
  <2>2. Place(n + 1)' = Cardinality({j \in DecisionsOf(c)' : j <= n + 1})
    BY <2>1 DEF Place, DecisionsOf
  <2>3. {j \in DecisionsOf(c)' : j <= n + 1} = DecisionsOf(c)'
    BY <1>2
  <2> QED BY <1>4, <2>1, <2>2, <2>3
<1> QED BY <1>1, <1>3, <1>4, <1>5, <1>6

(* A correction that is not decided by this step. *)
LEMMA StaysStaged ==
  ASSUME NEW c, correction'[c] = correction[c], Staged(c), DecisionsOf(c)' = DecisionsOf(c),
         \A i \in DecisionsOf(c) : decisions'[i] = decisions[i] /\ Place(i)' = Place(i)
  PROVE  Staged(c)'
<1>1. Refused(c)' <=> Refused(c)
  BY DEF Refused
<1> QED BY <1>1 DEF Staged

LEMMA StagedNext ==
  ASSUME NEW c, NEW u, NEW s, NEW n,
         u = correction'[c].user, s = correction'[c].status, n = Cardinality(DecisionsOf(c)'),
         n <= Len(Route(u)),
         \A i \in DecisionsOf(c)' :
           /\ decisions'[i].stage = Route(u)[Place(i)']
           /\ IF decisions'[i].stage = "atasan" THEN decisions'[i].by = Boss[u]
                                                ELSE Role[decisions'[i].by] = decisions'[i].stage
           /\ decisions'[i].decision = "reject" => Place(i)' = n,
         IF Refused(c)' THEN s = "ditolak"
         ELSE IF n = Len(Route(u)) THEN s = "disetujui"
         ELSE s \in Pending /\ StageForStatus(s) = Route(u)[n + 1]
  PROVE  Staged(c)'
  BY DEF Staged

LEMMA SubmissionStaged ==
  ASSUME DayInv, DecidedExist, DecidedInStages, NEW c \in Corrections,
         NEW u \in Users, NEW d \in Days,
         NEW clock \in [Types -> (0..(DayLength - 1)) \cup {NoTime}],
         CreateCorrection(c, u, d, clock)
  PROVE  DecidedInStages'
<1>1. PICK s \in InitialStatusForRole(Role[u], Boss[u] # NoUser) :
        correction' = [correction EXCEPT ![c] =
          [user |-> u, day |-> d, status |-> s, clock |-> clock]]
  BY DEF CreateCorrection
<1>2. correction[c] = NoCorrection /\ decisions' = decisions
  BY DEF CreateCorrection
<1>3. correction'[c].user = u /\ correction'[c].status = s
  BY <1>1 DEF DayInv, TypeOK
<1>4. DecisionsOf(c)' = {}
  BY <1>2 DEF DecidedExist, DecisionsOf
<1>5. Staged(c)'
  <2>1. Cardinality(DecisionsOf(c)') = 0 /\ ~ Refused(c)'
    BY <1>4, FS_EmptySet DEF Refused
  <2>2. /\ 0 <= Len(Route(u)) /\ 0 # Len(Route(u))
        /\ s \in Pending /\ StageForStatus(s) = Route(u)[0 + 1]
    BY Routes
  <2> QED BY <1>3, <1>4, <2>1, <2>2, StagedNext
<1>6. ASSUME NEW b \in Corrections, b # c, correction'[b] # NoCorrection
      PROVE  Staged(b)'
  <2>1. correction'[b] = correction[b]
    BY <1>1, <1>6 DEF DayInv, TypeOK
  <2>2. DecisionsOf(b)' = DecisionsOf(b) /\ \A i : Place(i)' = Place(i)
    BY <1>2 DEF DecisionsOf, Place
  <2> QED BY <1>2, <1>6, <2>1, <2>2, StagedIs, StaysStaged
<1> QED BY <1>5, <1>6 DEF DecidedInStages, Staged

LEMMA DecisionStaged ==
  ASSUME DayInv, DecidedInStages, NEW c \in Corrections, NEW by \in Users,
         NEW decision \in {"approve", "reject"}, DecideCorrection(c, by, decision)
  PROVE  DecidedInStages'
<1> DEFINE u == correction[c].user
           s == correction[c].status
           next == IF decision = "approve" THEN NextStatusAfterApprove(s) ELSE "ditolak"
           done == Cardinality(DecisionsOf(c))
<1> PICK e : e = [of |-> c, stage |-> StageForStatus(s), by |-> by, decision |-> decision]
  OBVIOUS
<1>1. /\ correction[c] # NoCorrection /\ s \in Pending
      /\ CanDecide(Role[by], s) /\ (Role[by] = "atasan" => Boss[u] = by)
      /\ correction' = [correction EXCEPT ![c].status = next]
      /\ decisions' = Append(decisions, e)
  BY DEF DecideCorrection, MayDecideCorrection
<1>2. /\ decisions \in Seq(Decision) /\ correction[c] \in Correction /\ u \in Users
      /\ correction \in [Corrections -> Correction \cup {NoCorrection}]
  BY <1>1 DEF DayInv, TypeOK, Correction
<1>3. e \in Decision /\ e.of = c /\ e.by = by /\ e.decision = decision /\ e.stage = StageForStatus(s)
  BY <1>1, DecisionLeads DEF Decision, Decisions
<1>4. correction'[c].user = u /\ correction'[c].status = next
  BY <1>1, <1>2 DEF Correction
<1> PICK n \in Nat : n = Len(decisions)
  BY <1>2
<1>5. /\ decisions'[n + 1] = e /\ DecisionsOf(c)' = DecisionsOf(c) \cup {n + 1}
      /\ n + 1 \notin DecisionsOf(c)
      /\ Cardinality(DecisionsOf(c)') = done + 1
      /\ \A b : b # c => DecisionsOf(b)' = DecisionsOf(b)
      /\ \A i \in 1..n : decisions'[i] = decisions[i] /\ Place(i)' = Place(i)
      /\ Place(n + 1)' = done + 1
  BY <1>1, <1>2, <1>3, OneMoreDecision
<1>6. /\ \A b : DecisionsOf(b) \subseteq 1..n
      /\ done \in Nat
  BY <1>2, DecisionsFinite
<1>7. ASSUME NEW b \in Corrections, b # c, correction'[b] # NoCorrection
      PROVE  Staged(b)'
  <2>1. correction'[b] = correction[b]
    BY <1>1, <1>2, <1>7
  <2> QED BY <1>5, <1>6, <1>7, <2>1, StagedIs, StaysStaged
<1>8. Staged(c)'
  <2>1. Staged(c)
    BY <1>1, StagedIs
  <2>2. /\ done < Len(Route(u)) /\ StageForStatus(s) = Route(u)[done + 1] /\ ~ Refused(c)
        /\ \A i \in DecisionsOf(c) :
             /\ decisions[i].stage = Route(u)[Place(i)]
             /\ IF decisions[i].stage = "atasan" THEN decisions[i].by = Boss[u]
                                                 ELSE Role[decisions[i].by] = decisions[i].stage
             /\ decisions[i].decision # "reject"
    BY <1>1, <1>6, <2>1, Routes, <1>2 DEF Staged, Refused, Pending
  <2>3. /\ e.stage = Route(u)[Place(n + 1)']
        /\ IF e.stage = "atasan" THEN e.by = Boss[u] ELSE Role[e.by] = e.stage
    BY <1>1, <1>3, <1>5, <2>2 DEF CanDecide, StageForStatus
  <2>4. \A i \in DecisionsOf(c)' :
          /\ decisions'[i].stage = Route(u)[Place(i)']
          /\ IF decisions'[i].stage = "atasan" THEN decisions'[i].by = Boss[u]
                                               ELSE Role[decisions'[i].by] = decisions'[i].stage
          /\ decisions'[i].decision = "reject" => Place(i)' = done + 1
    BY <1>5, <1>6, <2>2, <2>3
  <2>5. Refused(c)' <=> decision = "reject"
    BY <1>3, <1>5, <1>6, <2>2 DEF Refused
  <2>6. done + 1 <= Len(Route(u))
    BY <1>2, <1>6, <2>2, Routes
  <2>7. IF decision = "reject" THEN next = "ditolak"
        ELSE IF done + 1 = Len(Route(u)) THEN next = "disetujui"
        ELSE next \in Pending /\ StageForStatus(next) = Route(u)[done + 2]
    BY <1>1, <1>2, <1>6, <2>2, RouteGoesOn
  <2>8. PICK v, t, m : v = u /\ t = next /\ m = done + 1 /\ m + 1 = done + 2
    BY <1>6
  <2>9. v = correction'[c].user /\ t = correction'[c].status /\ m = Cardinality(DecisionsOf(c)')
    BY <1>4, <1>5, <2>8
  <2>10. /\ m <= Len(Route(v))
         /\ IF Refused(c)' THEN t = "ditolak"
            ELSE IF m = Len(Route(v)) THEN t = "disetujui"
            ELSE t \in Pending /\ StageForStatus(t) = Route(v)[m + 1]
    BY <2>5, <2>6, <2>7, <2>8
  <2>11. \A i \in DecisionsOf(c)' :
          /\ decisions'[i].stage = Route(v)[Place(i)']
          /\ IF decisions'[i].stage = "atasan" THEN decisions'[i].by = Boss[v]
                                               ELSE Role[decisions'[i].by] = decisions'[i].stage
          /\ decisions'[i].decision = "reject" => Place(i)' = m
    BY <2>4, <2>8
  <2> QED BY <2>9, <2>10, <2>11, StagedNext
<1> QED BY <1>7, <1>8 DEF DecidedInStages, Staged

LEMMA StagedStep ==
  ASSUME DayInv, PrevailInv, DecidedInStages, [Next]_vars
  PROVE  DecidedInStages'
<1>1. CASE UNCHANGED <<correction, decisions>>
  <2> SUFFICES ASSUME NEW c \in Corrections, correction'[c] # NoCorrection PROVE Staged(c)'
    BY DEF DecidedInStages, Staged
  <2>1. DecisionsOf(c)' = DecisionsOf(c) /\ \A i : Place(i)' = Place(i)
    BY <1>1 DEF DecisionsOf, Place
  <2> QED BY <1>1, <2>1, StagedIs, StaysStaged
<1>2. ASSUME NEW c \in Corrections, CorrectionStep(c) PROVE DecidedInStages'
  BY <1>2, SubmissionStaged, DecisionStaged DEF CorrectionStep, PrevailInv
<1>3. ASSUME NEW r \in Records, RecordStep(r) PROVE UNCHANGED <<correction, decisions>>
  BY <1>3 DEF RecordStep, BeginRecord, CheckSequence, UploadPhoto, Create, CreateFails,
              TakeBackPhoto, GiveUpRecord
<1>4. ASSUME NEW w \in Workers, JobStep(w) PROVE UNCHANGED <<correction, decisions>>
  BY <1>4 DEF JobStep, ClaimExpiredPhotos, ProcessPhoto, DeletePhoto, DeletePhotoFails,
              CommitJob, RollbackJob
<1>5. Tick \/ UNCHANGED vars => UNCHANGED <<correction, decisions>>
  BY DEF Tick, vars
<1> QED BY <1>1, <1>2, <1>3, <1>4, <1>5 DEF Next

(* Whoever submits, and whatever decisions are tried in whatever order and   *)
(* as often: a correction passes the stages of its route, each once, each    *)
(* decided by the user entitled, and none after a refusal.                   *)
THEOREM CorrectionsPassStages == Spec => []DecidedInStages
<1>1. Init => DecidedInStages
  BY DEF Init, DecidedInStages
<1>2. DayInv /\ PrevailInv /\ DecidedInStages /\ [Next]_vars => DecidedInStages'
  BY StagedStep
<1> QED
  BY <1>1, <1>2, InitDay, DayStep, InitPrevails, PrevailStep, PTL DEF Spec
=============================================================================
