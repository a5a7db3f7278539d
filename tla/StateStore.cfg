\* Two writers, three requests, one kept backup over two seconds, two faults.
SPECIFICATION Spec
CONSTANTS
  t1 = t1
  t2 = t2
  Threads = {t1, t2}
  n1 = n1
  n2 = n2
  n3 = n3
  n4 = n4
  Inodes = {n1, n2, n3, n4}
  Keep = 1
  MaxTime = 2
  MaxRequests = 3
  MaxFaults = 2
SYMMETRY Symmetry
INVARIANTS
  WholeWhileAlone
  AckedKeptWhileAlone
  NoTraceOfFailures
PROPERTIES
  ImplementsAtomicFile
\* MaxRequests ends the behaviour.
CHECK_DEADLOCK FALSE
