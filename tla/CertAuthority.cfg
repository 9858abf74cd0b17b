SPECIFICATION CertSpec
CONSTANTS
  Runs = {r1, r2, r3}
  Conns = {c1, c2}
  Hosts = {h1}
  Old = Old
  None = None
  Empty = Empty
  FirstFiles <- MCFirstFiles
INVARIANTS
  SameCA
  ChildTrustsItsCA
  PairMatches
  OneLeafPerHost
CHECK_DEADLOCK FALSE
