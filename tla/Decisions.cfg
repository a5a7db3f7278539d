\* Deltas on both sides of and at each threshold; six days, in which a near
\* leg passes every DTE threshold and expires and a LEAP core grows short-dated.
SPECIFICATION AllSpec
CONSTANTS
  Scopes = {"book", "gates", "selection", "strikes", "hedge", "statistics", "regime"}
  Nothing = Nothing
  None = None
  t1 = t1
  t2 = t2
  NoDelta = NoDelta
  NoDay = NoDay
  Books <- MCBooks
  SpyBooks <- MCHedges
  Quotes = {{}, {"below_sma", "below_floor"}}
  Deltas = {25, 26, 35, 40, 41}
  LastDay = 5
  DeltaWatch = 30
  DeltaAct = 35
  DeltaCritical = 40
  DeltaHigh = 25
  DteUrgent = 1
  DteWarning = 2
  DteLow = 3
  DteManage = 2
  LeapMinDte = 4
  LeapRollDte = 6
  LeapRollDelta = 40
  DteExceptions = {8}
INVARIANTS
  ExemptIffCovered
  CopiesAgree
  SelectionSound
  StrikesMeetTheirDelta
  HedgePaysWhatItSays
PROPERTIES
  NothingCalms
CHECK_DEADLOCK FALSE
