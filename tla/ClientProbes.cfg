SPECIFICATION FairSpec
CONSTANTS
  Protos = {a}
  KindsInUse = {"openvpn", "wireguard", "amneziawg", "socks", "mtg", "mtorig"}
  MaxRuns = 3
  MaxFaults = 2
INVARIANTS
  TypeOK
  VerdictIsEarned
  OpenPathIsOk
  FinalOkReachedListener
  DroppedAnswersAreNotOk
  NothingLeftBehind
PROPERTIES
  LoopFinishes
