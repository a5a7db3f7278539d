\* Two tickers and two threads, ids for three alerts; a cooldown of two hours
\* out of two; one failed save or one damage of the file.
SPECIFICATION AlertsSpec
CONSTANTS
  k1 = k1
  k2 = k2
  i1 = i1
  i2 = i2
  i3 = i3
  t1 = t1
  t2 = t2
  Tickers = {k1, k2}
  Ids = {i1, i2, i3}
  Threads = {t1, t2}
  Cooldown = 2
  NoAlert = NoAlert
  Never = Never
  MaxTime = 2
  MaxRequests = 2
  MaxFaults = 1
SYMMETRY Symmetry
INVARIANTS
PROPERTIES
  SilenceHolds
  NothingMissed
  BlindNeverSaves
\* MaxRequests ends the behaviour.
CHECK_DEADLOCK FALSE
