\* days of one hour, a photo expires on the next: two calls, two workers, batches
\* of two, one object that is never deleted
CONSTANTS
  ana = ana  budi = budi  citra = citra
  NoUser = NoUser  NoRow = NoRow  NoRecord = NoRecord  NoCorrection = NoCorrection
  NoJob = NoJob  NoPhoto = NoPhoto  NoTime = NoTime
  Users = {ana}  Role <- OneRole  Boss <- OneBoss
  DayLength = 1  WorkStart = 0  WorkEnd = 1  Retention = 0
  Photos = {p1, p2}  Stuck = {p1}
  Driver = "minio"  RootFolder = RootFolder
  Records = {r1, r2}  Corrections = {}  Workers = {w1, w2}
  BatchSize = 2  MaxTime = 1
SPECIFICATION FairSpec
PROPERTIES
  
  PhotosExpire
