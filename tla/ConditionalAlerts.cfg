\* Two threads, an intraday alert and two close alerts (a daily one that fires
\* at or above its threshold, a weekly one below), a price on each side of the
\* threshold, one failed save or crash.
SPECIFICATION Spec
CONSTANTS
  price = price
  daily = daily
  weekly = weekly
  t1 = t1
  t2 = t2
  Alerts = {price, daily, weekly}
  CloseAlerts = {daily, weekly}
  WeeklyAlerts = {weekly}
  PositionAlerts = {}
  AboveAlerts = {price, daily}
  Thresholds = {0, 2}
  Levels = {1, 3}
  Threads = {t1, t2}
  MaxRequests = 4
  MaxFaults = 1
SYMMETRY Symmetry
INVARIANTS
  TriggersConfirmed
  ReportedOncePerArming
PROPERTIES
  ImplementsLifecycle
\* MaxRequests ends the behaviour.
CHECK_DEADLOCK FALSE
