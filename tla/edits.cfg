\* one leave request, its supervisor, a call and the escalation job, one fault, while HR
\* changes an employee (role, supervisor, deactivation) and the leave type at any moment
CONSTANTS
  ani = ani  budi = budi  hani = hani  tia = tia
  r1 = r1  r2 = r2  r3 = r3  cuti = cuti  row = row
  c1 = c1  c2 = c2  j1 = j1  j2 = j2
  Users = {ani, budi, hani}
  NoUser = NoUser
  Requests = {r1}
  Owner <- OwnerAni
  Kind <- AllLeave
  LeaveTypes = {cuti}
  TypeOf <- TypeCuti
  Days <- TwoDays
  Accounts = {row}
  Account <- OnRow
  NoRow = NoRow
  Opening <- ThreeDays
  Calls = {c1}
  NoCall = NoCall
  Jobs = {j1}
  JobKind <- LeaveJobs
  Batch = 2
  InitStaff <- SmallCompany
  InitTypes <- CompanyTypes
  Quotas = {3}
  Limits = {2}
  MaxStaffEdits = 1
  MaxTypeEdits = 1
  MaxFaults = 1
SPECIFICATION FairSpec
INVARIANTS DecidesWhatItRead InboxTellsHistory
PROPERTIES
  Implements
  SupervisorStageEnds
\* nobody may be left who submits, nor a type to submit: nothing may be left to do
CHECK_DEADLOCK FALSE
