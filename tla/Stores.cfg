\* Two threads; posts of at most two events and days to outlive what they warn of
\* (MCPayloads, MCCalls); two volatilities kept of two tickers over three days;
\* an earnings date before, inside and beyond the blackout; three entries of the
\* journal, so that a chain of two links exists.
SPECIFICATION Spec
CONSTANTS
  Threads = {w1, w2}
  Payloads <- MCPayloads
  Calls <- MCCalls
  CuratedDays = 4
  DeferDays = 2
  Cooldown = 2
  Tickers = {t1, t2}
  Keep = 2
  IvDays = 2
  CalendarDays = 1
  CalendarRequests = 3
  LastDate = 2
  Blackout = 0
  Approaching = 1
  Legs = {near, far, spy}
  Hedges = {spy}
  SameTicker <- MCSameTicker
  Qtys <- MCQtys
  FirstBooks <- MCFirstBooks
  Monday = 1
  KeepSnapshots = 3
  MaxDay = 2
  MaxTrades = 2
  MaxRequests = 3
  MaxFaults = 1
  Traded = {t1}
  Ids = {j1, j2, j3}
  Actions = {"OPEN", "ROLL"}
  Scopes = {"curated", "iv", "earnings", "journal"}
  None = None
  NoDate = NoDate
  NoEntry = NoEntry
  Torn = Torn
  Idle = Idle
  Unreadable = Unreadable
  t1 = t1
  t2 = t2
  near = near
  far = far
  spy = spy
SYMMETRY Symmetric
CHECK_DEADLOCK FALSE
INVARIANTS
  SilenceIsInformed
  HistoryKept
  NeverClearByMistake
  LinksComeInPairs
PROPERTIES
  ConfirmedKept
