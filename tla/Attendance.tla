----------------------------- MODULE Attendance -----------------------------
(***************************************************************************)
(* Attendance of a day: check-in and check-out with a photo                *)
(* (AttendanceService.Record), their correction after approval             *)
(* (UATHandler.CreateCorrection, DecideCorrection), and the worker that    *)
(* removes photos after the retention time (PhotoRetentionJob).  The rows  *)
(* are in PostgreSQL and the photos in object storage, which no            *)
(* transaction covers.                                                     *)
(*                                                                         *)
(* Time is a number; a day has DayLength of them.  Location, distance and  *)
(* working mode decide only whether a call is accepted, and are left out.  *)
(***************************************************************************)
EXTENDS ApprovalRules, ObjectStorage, Integers, Sequences, FiniteSets

CONSTANTS
  Users, NoUser,
  Role, Boss,          \* the staff directory: role and supervisor of a user
  DayLength, WorkStart, WorkEnd,
  Retention,           \* PhotoRetention, in days
  Photos,              \* object paths
  Stuck,               \* those of objects that the storage never manages to delete
  Records, Corrections, Workers,   \* calls, requests and retention workers
  BatchSize,
  NoRow, NoRecord, NoCorrection, NoJob, NoPhoto, NoTime,
  MaxTime              \* bound: the time the model ends

VARIABLES
  now,
  row,         \* attendances: row[k], unique per user, day and type
  storage,     \* the objects stored
  record,      \* Record calls in progress
  correction,  \* attendance_corrections
  decisions,   \* attendance_correction_approvals, in commit order
  job          \* retention runs in progress

vars == <<now, row, storage, record, correction, decisions, job>>

Types == {"check_in", "check_out"}
Times == 0..MaxTime
Day(t) == t \div DayLength
Days == {Day(t) : t \in Times}
Keys == [user : Users, day : Days, type : Types]
Key(u, d, type) == [user |-> u, day |-> d, type |-> type]

CheckInStatus(t) == IF t % DayLength > WorkStart THEN "terlambat" ELSE "tepat_waktu"
CheckOutStatus(t) == IF t % DayLength < WorkEnd THEN "pulang_cepat" ELSE "valid"
StatusAt(type, t) == IF type = "check_in" THEN CheckInStatus(t) ELSE CheckOutStatus(t)

Locations == {Location(p) : p \in Photos}
Row == [time : Nat, status : {"terlambat", "tepat_waktu", "pulang_cepat", "valid"},
        photo : Locations \cup {NoPhoto},
        origin : {"tercatat", "koreksi"}]  \* a position was taken, or 0,0 written
Record == [step : {"begun", "checked", "uploaded", "failed"},
           key : Keys, time : Times, photo : Photos \cup {NoPhoto}]
Correction == [user : Users, day : Days, status : Pending \cup Settled,
               clock : [Types -> (0..DayLength - 1) \cup {NoTime}]]
Decision == [of : Corrections, stage : Stages, by : Users, decision : Decisions]
Job == [todo : SUBSET Keys, cleared : SUBSET Keys, claimed : SUBSET Keys]

ASSUME DirectoryAssumption ==
  Role \in [Users -> Roles] /\ Boss \in [Users -> Users \cup {NoUser}] /\ NoUser \notin Users
ASSUME TimeAssumption ==
  /\ DayLength \in Nat \ {0} /\ WorkStart \in Nat /\ WorkEnd \in Nat
  /\ Retention \in Nat /\ MaxTime \in Nat /\ BatchSize \in Nat \ {0}
ASSUME StorageAssumption ==
  Stuck \subseteq Photos /\ NoPhoto \notin Photos \cup Locations
(* a path begins with attendance-photos, which is no root folder: it is no locator *)
ASSUME FolderAssumption == Driver = "nextcloud" => Photos \cap Locations = {}
ASSUME AttendanceAbsence ==
  /\ NoRow \notin Row /\ NoRecord \notin Record /\ NoJob \notin Job
  /\ NoCorrection \notin Correction /\ NoTime \notin Int

Init ==
  /\ now = 0
  /\ row = [k \in Keys |-> NoRow]
  /\ storage = {}
  /\ record = [r \in Records |-> NoRecord]
  /\ correction = [c \in Corrections |-> NoCorrection]
  /\ decisions = <<>>
  /\ job = [w \in Workers |-> NoJob]

Tick ==
  /\ now < MaxTime
  /\ now' = now + 1
  /\ UNCHANGED <<row, storage, record, correction, decisions, job>>
-----------------------------------------------------------------------------
(* Record. *)

RecordAt(r, step) == record[r] # NoRecord /\ record[r].step = step
Answer(r) == record' = [record EXCEPT ![r] = NoRecord]
Claimed == UNION {job[w].claimed : w \in {v \in Workers : job[v] # NoJob}}

(* the time of the call, and so its day, is taken when it begins *)
BeginRecord(r, u, type) ==
  /\ record[r] = NoRecord
  /\ Role[u] # "top_management"
  /\ record' = [record EXCEPT ![r] =
       [step |-> "begun", key |-> Key(u, Day(now), type), time |-> now, photo |-> NoPhoto]]
  /\ UNCHANGED <<now, row, storage, correction, decisions, job>>

(* A wrong check: a check-out needs no check-in. *)
CheckSequenceDuplicatesOnly(r) ==
  /\ RecordAt(r, "begun")
  /\ row[record[r].key] = NoRow
  /\ record' = [record EXCEPT ![r].step = "checked"]
  /\ UNCHANGED <<now, row, storage, correction, decisions, job>>

(* a check-out needs a check-in, and neither may be there already *)
CheckSequence(r) ==
  LET k == record[r].key IN
  /\ RecordAt(r, "begun")
  /\ k.type = "check_out" => row[Key(k.user, k.day, "check_in")] # NoRow
  /\ row[k] = NoRow
  /\ record' = [record EXCEPT ![r].step = "checked"]
  /\ UNCHANGED <<now, row, storage, correction, decisions, job>>

(* A wrong path: without the UUID. *)
AnyPhoto(p) == TRUE

(* the path of a photo is new: attendancePhotoPath ends in a UUID *)
NewPhoto(p) ==
  /\ ObjectURL(p) \notin storage
  /\ \A r \in Records : record[r] # NoRecord => record[r].photo # p
  /\ \A k \in Keys : row[k] # NoRow => row[k].photo # Location(p)

UploadPhoto(r, p) ==
  /\ RecordAt(r, "checked")
  /\ NewPhoto(p)
  /\ storage' = Upload(storage, p)
  /\ record' = [record EXCEPT ![r].step = "uploaded", ![r].photo = p]
  /\ UNCHANGED <<now, row, correction, decisions, job>>

RecordedRow(r) ==
  [time |-> record[r].time, status |-> StatusAt(record[r].key.type, record[r].time),
   photo |-> Location(record[r].photo), origin |-> "tercatat"]

(* A wrong insert: it replaces a row that is there. *)
CreateOrReplace(r) ==
  /\ RecordAt(r, "uploaded")
  /\ row' = [row EXCEPT ![record[r].key] = RecordedRow(r)]
  /\ Answer(r)
  /\ UNCHANGED <<now, storage, correction, decisions, job>>

(* the insert and its audit entry commit *)
Create(r) ==
  /\ RecordAt(r, "uploaded")
  /\ row[record[r].key] = NoRow
  /\ row' = [row EXCEPT ![record[r].key] = RecordedRow(r)]
  /\ Answer(r)
  /\ UNCHANGED <<now, storage, correction, decisions, job>>

(* the unique index, an error of a statement, or an error of the commit,   *)
(* which may have taken effect all the same                                *)
CreateFails(r) ==
  /\ RecordAt(r, "uploaded")
  /\ record' = [record EXCEPT ![r].step = "failed"]
  /\ \/ UNCHANGED row
     \/ /\ row[record[r].key] = NoRow
        /\ row' = [row EXCEPT ![record[r].key] = RecordedRow(r)]
  /\ UNCHANGED <<now, storage, correction, decisions, job>>

(* a photo whose row is not there is taken back, by its path *)
TakeBackPhoto(r) ==
  /\ RecordAt(r, "failed")
  /\ storage' = Delete(storage, record[r].photo)
  /\ Answer(r)
  /\ UNCHANGED <<now, row, correction, decisions, job>>

(* refused or failed before the upload; or given up with nothing undone:   *)
(* the client goes away and its context ends the transaction and the       *)
(* removal alike, the storage fails, or the process ends                   *)
GiveUpRecord(r) ==
  /\ record[r] # NoRecord
  /\ Answer(r)
  /\ UNCHANGED <<now, row, storage, correction, decisions, job>>
-----------------------------------------------------------------------------
(* Corrections. *)

(* any day may be corrected, with a row or without; one time at least *)
CreateCorrection(c, u, d, clock) ==
  /\ correction[c] = NoCorrection
  /\ \E type \in Types : clock[type] # NoTime
  /\ \E s \in InitialStatusForRole(Role[u], Boss[u] # NoUser) :
       correction' = [correction EXCEPT ![c] =
         [user |-> u, day |-> d, status |-> s, clock |-> clock]]
  /\ UNCHANGED <<now, row, storage, record, decisions, job>>

MayDecideCorrection(c, by) ==
  /\ correction[c] # NoCorrection
  /\ correction[c].status \in Pending
  /\ CanDecide(Role[by], correction[c].status)
  /\ Role[by] = "atasan" => Boss[correction[c].user] = by

(* A wrong conversion: the offset of Jakarta is applied twice. *)
CorrectedTimeShifted(c, type) ==
  correction[c].day * DayLength + correction[c].clock[type] + 1

CorrectedTime(c, type) == correction[c].day * DayLength + correction[c].clock[type]

(* ON CONFLICT DO UPDATE: time and status, the photo and the rest stay *)
CorrectedRow(c, type) ==
  LET k == Key(correction[c].user, correction[c].day, type)
      t == CorrectedTime(c, type) IN
  IF row[k] = NoRow
  THEN [time |-> t, status |-> StatusAt(type, t), photo |-> NoPhoto, origin |-> "koreksi"]
  ELSE [row[k] EXCEPT !.time = t, !.status = StatusAt(type, t)]

CorrectedKeys(c) ==
  {k \in Keys : /\ k.user = correction[c].user /\ k.day = correction[c].day
                /\ correction[c].clock[k.type] # NoTime}

ApplyCorrection(c) ==
  row' = [k \in Keys |-> IF k \in CorrectedKeys(c) THEN CorrectedRow(c, k.type) ELSE row[k]]

(***************************************************************************)
(* One transaction.  Its first statement locks the correction, the user    *)
(* and the employee (FOR UPDATE without OF): a Record of the user waits,   *)
(* since its foreign key shares the lock of the user, and so does an       *)
(* update of the rows that a retention run has claimed.  The transaction   *)
(* is one step therefore.                                                  *)
(***************************************************************************)
DecideCorrection(c, by, decision) ==
  LET s == correction[c].status
      next == IF decision = "approve" THEN NextStatusAfterApprove(s) ELSE "ditolak" IN
  /\ MayDecideCorrection(c, by)
  /\ correction' = [correction EXCEPT ![c].status = next]
  /\ decisions' = Append(decisions, [of |-> c, stage |-> StageForStatus(s), by |-> by,
                                     decision |-> decision])
  /\ IF next = "disetujui"
     THEN CorrectedKeys(c) \cap Claimed = {} /\ ApplyCorrection(c)
     ELSE UNCHANGED row
  /\ UNCHANGED <<now, storage, record, job>>
-----------------------------------------------------------------------------
(* PhotoRetentionJob.Run, one transaction per run. *)

IsStuck(location) == \E p \in Stuck : location = Location(p)

Expired(k) == row[k] # NoRow /\ row[k].photo # NoPhoto /\ k.day < Day(now) - Retention

(* A wrong limit: one less. *)
ClaimOneLess(w, batch) ==
  LET free == {k \in Keys : Expired(k)} \ Claimed IN
  /\ job[w] = NoJob
  /\ batch # {} /\ batch \subseteq free
  /\ Cardinality(batch) = IF Cardinality(free) < BatchSize - 1 THEN Cardinality(free)
                                                               ELSE BatchSize - 1
  /\ \A k \in batch, l \in free \ batch : k.day <= l.day
  /\ job' = [job EXCEPT ![w] = [todo |-> batch, cleared |-> {}, claimed |-> batch]]
  /\ UNCHANGED <<now, row, storage, record, correction, decisions>>

(* the oldest rows, BatchSize at most, without those another run has locked *)
ClaimExpiredPhotos(w, batch) ==
  LET free == {k \in Keys : Expired(k)} \ Claimed IN
  /\ job[w] = NoJob
  /\ batch # {} /\ batch \subseteq free
  /\ Cardinality(batch) = IF Cardinality(free) < BatchSize THEN Cardinality(free)
                                                           ELSE BatchSize
  /\ \A k \in batch, l \in free \ batch : k.day <= l.day
  /\ job' = [job EXCEPT ![w] = [todo |-> batch, cleared |-> {}, claimed |-> batch]]
  /\ UNCHANGED <<now, row, storage, record, correction, decisions>>

(* by the locator in the row *)
DeletePhoto(w, k) ==
  /\ job[w] # NoJob /\ k \in job[w].todo
  /\ ~ IsStuck(row[k].photo)
  /\ CanDelete(storage, row[k].photo)
  /\ storage' = Delete(storage, row[k].photo)
  /\ job' = [job EXCEPT ![w].todo = @ \ {k}, ![w].cleared = @ \cup {k}]
  /\ UNCHANGED <<now, row, record, correction, decisions>>

(* counted as failed; the row is left to a later run *)
DeletePhotoFails(w, k) ==
  /\ job[w] # NoJob /\ k \in job[w].todo
  /\ job' = [job EXCEPT ![w].todo = @ \ {k}]
  /\ UNCHANGED <<now, row, storage, record, correction, decisions>>

(* ClearPhotoURL of each object deleted *)
CommitJob(w) ==
  /\ job[w] # NoJob /\ job[w].todo = {}
  /\ row' = [k \in Keys |-> IF k \in job[w].cleared THEN [row[k] EXCEPT !.photo = NoPhoto]
                                                    ELSE row[k]]
  /\ job' = [job EXCEPT ![w] = NoJob]
  /\ UNCHANGED <<now, storage, record, correction, decisions>>

(* a statement or the commit fails, or the process ends: no URL is cleared *)
RollbackJob(w) ==
  /\ job[w] # NoJob
  /\ job' = [job EXCEPT ![w] = NoJob]
  /\ UNCHANGED <<now, row, storage, record, correction, decisions>>
-----------------------------------------------------------------------------
RecordStep(r) ==
  \/ \E u \in Users, type \in Types : BeginRecord(r, u, type)
  \/ CheckSequence(r)
  \/ \E p \in Photos : UploadPhoto(r, p)
  \/ Create(r) \/ CreateFails(r) \/ TakeBackPhoto(r) \/ GiveUpRecord(r)

CorrectionStep(c) ==
  \/ \E u \in Users, d \in Days, clock \in [Types -> (0..DayLength - 1) \cup {NoTime}] :
       CreateCorrection(c, u, d, clock)
  \/ \E by \in Users, decision \in {"approve", "reject"} : DecideCorrection(c, by, decision)

ProcessPhoto(w) == \E k \in Keys : DeletePhoto(w, k) \/ DeletePhotoFails(w, k)

JobStep(w) ==
  \/ \E batch \in SUBSET Keys : ClaimExpiredPhotos(w, batch)
  \/ ProcessPhoto(w) \/ CommitJob(w) \/ RollbackJob(w)

Next ==
  \/ Tick
  \/ \E r \in Records : RecordStep(r)
  \/ \E c \in Corrections : CorrectionStep(c)
  \/ \E w \in Workers : JobStep(w)

Spec == Init /\ [][Next]_vars

(***************************************************************************)
(* Fairness: the daily run takes place again and again and works its batch *)
(* off; a deletion that is tried again and again succeeds some time,       *)
(* except of a stuck object; and the database stops failing some time, so  *)
(* that no run that has deleted an object is rolled back any more.         *)
(***************************************************************************)
Fairness ==
  /\ \A w \in Workers : /\ WF_vars(\E batch \in SUBSET Keys : ClaimExpiredPhotos(w, batch))
                        /\ WF_vars(ProcessPhoto(w))
                        /\ WF_vars(CommitJob(w))
  /\ \A k \in Keys : SF_vars(\E w \in Workers : DeletePhoto(w, k))
  /\ <>[][\A w \in Workers : ~(job[w] # NoJob /\ job[w].cleared # {} /\ RollbackJob(w))]_vars

FairSpec == Spec /\ Fairness
-----------------------------------------------------------------------------
(* Type correctness, of the rows and of what the calls in progress know; and *)
(* the time of a row is one of its day, in Jakarta's reckoning as well.      *)
TypeOK ==
  /\ now \in Times
  /\ row \in [Keys -> Row \cup {NoRow}]
  /\ \A k \in Keys : row[k] # NoRow => Day(row[k].time) = k.day
  /\ storage \subseteq {ObjectURL(p) : p \in Photos}
  /\ record \in [Records -> Record \cup {NoRecord}]
  /\ correction \in [Corrections -> Correction \cup {NoCorrection}]
  /\ decisions \in Seq(Decision)
  /\ job \in [Workers -> Job \cup {NoJob}]

(* "check-out hanya setelah check-in tercatat" (checkSequence): a check-out *)
(* that was recorded has a check-in of its user and day, though the check   *)
(* is made before the photo is uploaded and the row inserted long after.    *)
CheckOutNeedsCheckIn ==
  \A k \in Keys :
    row[k] # NoRow /\ row[k].origin = "tercatat" /\ k.type = "check_out"
      => row[Key(k.user, k.day, "check_in")] # NoRow

Approvals(k) ==
  {i \in 1..Len(decisions) : LET d == decisions[i] IN
     d.decision = "approve" /\ d.stage # "atasan" /\ k \in CorrectedKeys(d.of)}

(* The last approved correction of a check-in or check-out is what the row  *)
(* says, with the punctuality that goes with its time, whether the row was  *)
(* there, was written by the correction, or is being recorded by the user   *)
(* at the same time (DecideCorrection, "jam absensi ditulis dengan upsert").*)
CorrectionsPrevail ==
  \A k \in Keys : \A i \in Approvals(k) :
    (\A j \in Approvals(k) : j <= i) =>
      LET t == CorrectedTime(decisions[i].of, k.type) IN
      row[k] # NoRow /\ row[k].time = t /\ row[k].status = StatusAt(k.type, t)

(* whom the correction of u passes, in order *)
Route(u) ==
  CASE Role[u] = "karyawan" /\ Boss[u] # NoUser -> <<"atasan", "hr">>
    [] Role[u] = "hr"                           -> <<"top_management">>
    [] OTHER                                    -> <<"hr">>

(* the decisions of a correction, and the how-manieth of them decision i is *)
DecisionsOf(c) == {i \in 1..Len(decisions) : decisions[i].of = c}
Place(i) == Cardinality({j \in DecisionsOf(decisions[i].of) : j <= i})
Refused(c) == \E i \in DecisionsOf(c) : decisions[i].decision = "reject"

(* "Koreksi clock-in/clock-out menggunakan approval berjenjang" (UAT): a    *)
(* correction is approved by every stage of its route, in order, each once  *)
(* and each by the user entitled; it is refused by the first that refuses,  *)
(* and waits for the next stage of the route otherwise.                     *)
DecidedInStages ==
  \A c \in Corrections : correction[c] # NoCorrection =>
    LET u == correction[c].user
        s == correction[c].status
        n == Cardinality(DecisionsOf(c)) IN
    /\ n <= Len(Route(u))
    /\ \A i \in DecisionsOf(c) :
         LET d == decisions[i] IN
         /\ d.stage = Route(u)[Place(i)]
         /\ IF d.stage = "atasan" THEN d.by = Boss[u] ELSE Role[d.by] = d.stage
         /\ d.decision = "reject" => Place(i) = n
    /\ IF Refused(c) THEN s = "ditolak"
       ELSE IF n = Len(Route(u)) THEN s = "disetujui"
       ELSE s \in Pending /\ StageForStatus(s) = Route(u)[n + 1]

(* A photo is removed from under its row only by the retention run, after   *)
(* the retention time, or by the call that inserted the row and was told    *)
(* that it failed.                                                          *)
PhotosAreKept ==
  [][\A k \in Keys :
       row[k] # NoRow /\ Stored(storage, row[k].photo) /\ ~ Stored(storage', row[k].photo)
         => \/ Expired(k)
            \/ \E r \in Records : RecordAt(r, "failed") /\ record[r].key = k]_vars

(* Every photo past the retention time goes, though deletions fail, runs    *)
(* roll back and two workers run at the same time, as long as the objects   *)
(* that never go are fewer than a batch holds: they stay at its head.       *)
PhotosExpire ==
  \A k \in Keys : Expired(k) /\ ~ IsStuck(row[k].photo) ~> ~ Expired(k)
=============================================================================
