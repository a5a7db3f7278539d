\* Two handlers at a time, no fault of IBKR, of the disk or of the process, no
\* DAY order: only the interleaving of requests is left.
SPECIFICATION Spec
CONSTANTS
  o1 = o1
  t1 = t1
  t2 = t2
  Orders = {o1}
  DayOrders = {}
  Threads = {t1, t2}
  Outcomes = {"accepted", "rejected"}
  MaxRequests = 3
  MaxFaults = 0
PROPERTIES
  DeclineLeavesNothingAtBroker
\* MaxRequests ends the behaviour.
CHECK_DEADLOCK FALSE
