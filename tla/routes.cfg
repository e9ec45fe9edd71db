\* an overtime request of a karyawan and two leave requests of an HR user, which go to
\* Top Management and of which the balance row pays one; two calls, a job, a fault
CONSTANTS
  ani = ani  budi = budi  hani = hani  tia = tia
  r1 = r1  r2 = r2  r3 = r3  cuti = cuti  row = row
  c1 = c1  c2 = c2  j1 = j1  j2 = j2
  Users = {ani, budi, hani, tia}
  NoUser = NoUser
  Requests = {r1, r2, r3}
  Owner <- OwnerTwo
  Kind <- KindTwo
  LeaveTypes = {cuti}
  TypeOf <- TypeCuti
  Days <- TwoDays
  Accounts = {row}
  Account <- OnRow
  NoRow = NoRow
  Opening <- ThreeDays
  Calls = {c1, c2}
  NoCall = NoCall
  Jobs = {j2}
  JobKind <- OvertimeJobs
  Batch = 2
  InitStaff <- StaffCompany
  InitTypes <- CompanyTypes
  Quotas = {}
  Limits = {}
  MaxStaffEdits = 0
  MaxTypeEdits = 0
  MaxFaults = 1
SPECIFICATION Spec
SYMMETRY TwinSymmetry
INVARIANTS
  TypeOK
  OneWriterPerRequest
  HistoryExplainsStatus
  ApproversTold
  OnlyTheEntitledDecide
  ApprovedLeaveIsCharged
  NoOverdraft
  SomeoneGoesOn
