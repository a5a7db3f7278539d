\* Two handlers at a time, two orders of which one is DAY, every answer of the
\* broker, two failed requests or crashes.
SPECIFICATION Spec
CONSTANTS
  o1 = o1
  o2 = o2
  t1 = t1
  t2 = t2
  Orders = {o1, o2}
  DayOrders = {o1}
  Threads = {t1, t2}
  Outcomes = {"accepted", "silent", "unconfirmed", "rejected", "lost"}
  MaxRequests = 5
  MaxFaults = 2
SYMMETRY ThreadSymmetry
INVARIANTS
  OneLivePlacement
  OfferedMeansNotLive
PROPERTIES
  DeclineIsFinal
\* MaxRequests ends the behaviour.
CHECK_DEADLOCK FALSE
