SPECIFICATION FairSpec
CONSTANTS
  Files = {1, 2, 3, 4, 5, 6}
  TestIds = {"t1", "t2"}
  TestIdOf <- TwoRuns
  Solo = {5, 6}
  Listener = {1, 2, 3, 4}
  Broken = {}
  Empty = {6}
  Sid <- SameSid
  NoSid = NoSid
  StartedAt <- OldReports
  NoTime = NoTime
  RootMayVanish = TRUE
  MaxChanges = 4
  MaxCrashes = 1
  NoTestId = NoTestId
CHECK_DEADLOCK FALSE
INVARIANTS
  TypeOK
  OneAttemptPerSession
PROPERTIES
  ImplementsReportDb
  Converges
