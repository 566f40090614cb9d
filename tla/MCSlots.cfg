SPECIFICATION Spec
SYMMETRY ContentsAlike
CONSTRAINT OneMishap
CONSTANTS
  c1 = c1
  c2 = c2
  t1 = t1
  t2 = t2
  Collector = collector
  Registrar = registrar
  None = none
  Torn = torn
  Slot = {0, 1}
  Content = {c1, c2}
  Chunks <- OneEach
  Task = {t1}
  Probe = {}
  MaxStops = 1
  MaxFaults = 1
INVARIANTS
  ProofSlotsKept
  ReadsBackUncut
CHECK_DEADLOCK FALSE
