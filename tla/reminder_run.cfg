\* two runs at a time over two days; a batch is two of three contracts; an HR user opens the inbox
CONSTANTS
  budi = budi
  hana = hana
  hadi = hadi
  tina = tina
  Users <- MCUsers
  NoUser = NoUser
  Role <- MCRole
  Boss <- MCBoss
  Contracts <- MCContracts
  Subject <- MCSubject
  Ends <- MCEnds
  Workers = {w1, w2}
  ContractLeadDays = 1
  BatchSize = 2
  Readers = {hana}
  NoRow = NoRow
  NoRun = NoRun
  NoDay = NoDay
  MaxDay = 1
SPECIFICATION Spec
INVARIANTS TypeOK EveryoneEntitledOrNobody CompletedRunsRemind
PROPERTY InboxOnlyAdvances
