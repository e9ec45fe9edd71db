\* three calls on one account, each of any kind, and one fault
CONSTANTS
  c1 = c1  c2 = c2  c3 = c3
  Calls = {c1, c2, c3}
  Roles = {"karyawan", "atasan"}
  FailureLimit = 2
  LoginRateLimit = 2
  InitUser <- Open
  NoCall = NoCall
  MaxFaults = 1
SPECIFICATION Spec
SYMMETRY CallSymmetry
INVARIANTS
  TypeOK
  AnsweredChangesHold
  FailuresAreCounted
  CountersEnd
\* each call is made once: when all are done and the keys are gone, nothing is left
CHECK_DEADLOCK FALSE
