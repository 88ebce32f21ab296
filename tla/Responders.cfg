SPECIFICATION Spec
CONSTANTS
  Resp = {a}
  KindsInUse = {"socks", "mtg", "mtorig", "openvpn", "wireguard"}
  Families = {v4}
  MaxRuns = 2
  MaxFaults = 2
  MaxStrangers = 2
INVARIANTS
  TypeOK
  OkIsEarned
  CountersStartFresh
  ExchangeIsOk
  SnapshotIsReport
  HostLeftClean
