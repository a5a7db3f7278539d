\* The ledger alone: two legs of a ticker and one of SPY, short, doubly short or
\* closed; a Friday and the first two days of a week, two trades, three requests of
\* two threads, one fault.
SPECIFICATION Spec
CONSTANTS
  Threads = {w1, w2}
  Payloads <- MCPayloads
  Calls <- MCCalls
  CuratedDays = 4
  DeferDays = 2
  Cooldown = 2
  Tickers = {t1, t2}
  Keep = 2
  IvDays = 2
  CalendarDays = 1
  CalendarRequests = 3
  LastDate = 2
  Blackout = 0
  Approaching = 1
  Legs = {near, far, spy}
  Hedges = {spy}
  SameTicker <- MCSameTicker
  Qtys <- MCQtys
  FirstBooks <- MCFirstBooks
  Monday = 1
  KeepSnapshots = 3
  MaxDay = 2
  MaxTrades = 2
  MaxRequests = 3
  MaxFaults = 1
  Traded = {t1}
  Ids = {j1}
  Actions = {"OPEN", "ROLL"}
  Scopes = {"ledger"}
  None = None
  NoDate = NoDate
  NoEntry = NoEntry
  Torn = Torn
  Idle = Idle
  Unreadable = Unreadable
  t1 = t1
  t2 = t2
  near = near
  far = far
  spy = spy
SYMMETRY Symmetric
INVARIANTS
  PacingBracketsOpens
  BackfillsNothing
  RecordUsedOnce
\* MaxRequests ends the behaviour.
CHECK_DEADLOCK FALSE
