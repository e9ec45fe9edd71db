\* three calls, each of any kind, on one employee and those they create
CONSTANTS
  c1 = c1  c2 = c2  c3 = c3  ani = ani
  ops = ops  it = it
  Calls = {c1, c2, c3}
  People <- Staff
  Seed = {ani}
  MaxRows = 2
  Addresses = 2
  Departments = {ops, it}
  Unchanged = Unchanged
  Driver = "nextcloud"
  RootFolder = "root"
  NoFile = NoFile
  NoUpload = NoUpload
  NoTask = NoTask
  MaxFaults = 1
SPECIFICATION Spec
SYMMETRY Symmetry
INVARIANTS
  TypeOK
  RowsKeepDocuments
  StrayFilesExplained
  BalancesOpened
  AddressesDistinct
  ContactsFromOneRequest
  OrganisationHolds
\* each call is made once: when all are done nothing is left
CHECK_DEADLOCK FALSE
