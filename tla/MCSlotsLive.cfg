SPECIFICATION FairSpec
CONSTANTS
  c1 = c1
  c2 = c2
  t1 = t1
  t2 = t2
  Collector = collector
  Registrar = registrar
  None = none
  Torn = torn
  Slot = {0, 1}
  Content = {c2}
  Chunks <- JustOne
  Task = {t1}
  Probe = {0}
  MaxStops = 1
  MaxFaults = 0
PROPERTY
  EveryOperationEnds
INVARIANT
  ProofSlotsVerify
CHECK_DEADLOCK FALSE
