SPECIFICATION FairSpec
CONSTANTS
  Conns = {c1, c2}
  N = 2
  Rate = 1
  Buffer = 1
  Samples = 1
  MaxPoll = 3
  Timeout = 4
  MaxFaults = 1
  NoReading = NoReading
INVARIANTS
  TypeOK
  FigureIsLinkRate
PROPERTIES
  HandlersEnd
