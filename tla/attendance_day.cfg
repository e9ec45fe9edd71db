\* a day of two hours: two calls and a correction at a time
CONSTANTS
  ana = ana  budi = budi  citra = citra
  NoUser = NoUser  NoRow = NoRow  NoRecord = NoRecord  NoCorrection = NoCorrection
  NoJob = NoJob  NoPhoto = NoPhoto  NoTime = NoTime
  Users = {ana, budi, citra}  Role <- MCRole  Boss <- MCBoss
  DayLength = 2  WorkStart = 0  WorkEnd = 1  Retention = 1
  Photos = {p1, p2}  Stuck = {}
  Driver = "minio"  RootFolder = RootFolder
  Records = {r1, r2}  Corrections = {c1}  Workers = {}
  BatchSize = 1  MaxTime = 1
SPECIFICATION Spec
SYMMETRY Symmetry
INVARIANTS
  TypeOK
  CheckOutNeedsCheckIn
  CorrectionsPrevail
  DecidedInStages
