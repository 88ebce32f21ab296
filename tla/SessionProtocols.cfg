SPECIFICATION Spec
CONSTANTS
  Clients = {c1}
  Protocols = {wg, ss}
  Latched = {wg}
  MaxServes = 1
  MaxAttempts = 1
  FetchAttempts = 1
  SnapshotAttempts = 1
  MaxSignals = 1
  PeersMayVanish = FALSE
  NoClient = NoClient
  NoSnapshots = NoSnapshots
  NoReport = NoReport
INVARIANTS
  SnapshotIsFinal
  LatchedViewsAgree
