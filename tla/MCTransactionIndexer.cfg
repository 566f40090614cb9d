SPECIFICATION FairSpec
CONSTANTS
  proof = proof
  report = report
  v1 = v1
  v2 = v2
  p = p
  None = none
  Txs = {proof, report}
  Sender <- MCSender
  Type <- MCType
  Provider <- MCProvider
  Reports = {report}
  MaxHeight = 2
  MaxPerBlock = 2
  MaxIncluded = 3
  MaxMishaps = 1
  Limits = {0, 1, 3}
  MaxPage = 2
  MaxSpan = 1000000
INVARIANTS
  CursorIsIndexed
  ListingsNeverFail
  LastInclusionWins
  
  PagesResume
  
PROPERTY
  IndexCatchesUp
CHECK_DEADLOCK FALSE
