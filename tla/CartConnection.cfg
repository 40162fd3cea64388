SPECIFICATION ConnectionFairSpec
CONSTANTS
  Threads = {c1, c2, c3}
  MaxFaults = 3
INVARIANTS
  OneConnectionPerFault
  UntestedTakesFaults
PROPERTIES
  EveryCallReturns
