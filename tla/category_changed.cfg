\* one leave request, while HR edits its leave type
CONSTANTS
  ani = ani  budi = budi  hani = hani  tia = tia
  r1 = r1  r2 = r2  r3 = r3  cuti = cuti  row = row
  c1 = c1  c2 = c2  j1 = j1  j2 = j2
  Users = {ani, budi, hani}
  NoUser = NoUser
  Requests = {r1}
  Owner <- OwnerAni
  Kind <- AllLeave
  LeaveTypes = {cuti}
  TypeOf <- TypeCuti
  Days <- TwoDays
  Accounts = {row}
  Account <- OnRow
  NoRow = NoRow
  Opening <- ThreeDays
  Calls = {c1}
  NoCall = NoCall
  Jobs = {}
  JobKind <- LeaveJobs
  Batch = 2
  InitStaff <- FlatCompany
  InitTypes <- CompanyTypes
  Quotas = {3}
  Limits = {0, 2}
  MaxStaffEdits = 0
  MaxTypeEdits = 1
  MaxFaults = 0
SPECIFICATION Spec
INVARIANT ApprovedLeaveIsCharged
\* HR may deactivate the leave type: nothing may be left to do
CHECK_DEADLOCK FALSE
