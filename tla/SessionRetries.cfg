SPECIFICATION Spec
CONSTANTS
  Clients = {c1}
  Protocols = {wg}
  Latched = {wg}
  MaxServes = 1
  MaxAttempts = 2
  FetchAttempts = 2
  SnapshotAttempts = 1
  MaxSignals = 0
  PeersMayVanish = FALSE
  NoClient = NoClient
  NoSnapshots = NoSnapshots
  NoReport = NoReport
INVARIANTS
  TypeOK
  RemoteStopKeepsThroughput
  RemoteStopMeansConnected
