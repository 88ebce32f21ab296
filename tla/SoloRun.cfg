CONSTANTS
  Repeats = 3
  MaxLosses = 3
  MaxRaises = 1
  ActiveSets <- MCActiveSets
  ReportSets <- MCReportSets
  EntryWeights <- MCEntryWeights
  ExitWeights <- MCExitWeights
  RelayWeights <- MCRelayWeights
SPECIFICATION FairSpec
INVARIANTS
  TypeOK
  NothingLost
  QuietUplink
  BlockedIsEarned
  TieIsCautious
  CensorIsSeen
  BetterNeverScoresLower
PROPERTY RunEnds
CHECK_DEADLOCK FALSE
