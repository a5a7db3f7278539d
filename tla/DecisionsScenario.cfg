\* The strikes alone, against what the docstring of the estimate says.
SPECIFICATION AllSpec
CONSTANTS
  Scopes = {"strikes"}
  Nothing = Nothing
  None = None
  t1 = t1
  t2 = t2
  NoDelta = NoDelta
  NoDay = NoDay
  Books <- MCBooks
  SpyBooks <- MCHedges
  Quotes = {{}, {"below_sma", "below_floor"}}
  Deltas = {25, 26, 35, 40, 41}
  LastDay = 5
  DeltaWatch = 30
  DeltaAct = 35
  DeltaCritical = 40
  DeltaHigh = 25
  DteUrgent = 1
  DteWarning = 2
  DteLow = 3
  DteManage = 2
  LeapMinDte = 4
  LeapRollDte = 6
  LeapRollDelta = 40
  DteExceptions = {8}
INVARIANT ScenarioStrikesMeetTheirDelta
CHECK_DEADLOCK FALSE
