\* Two requests at a time, three section updates, a reset, two faults.
SPECIFICATION ConfigSpec
CONSTANTS
  t1 = t1
  t2 = t2
  Workers = {t1, t2}
  n1 = n1
  n2 = n2
  n3 = n3
  n4 = n4
  n5 = n5
  Inodes = {n1, n2, n3, n4, n5}
  MaxUpdates = 3
  MaxResets = 1
  MaxFaults = 2
SYMMETRY Symmetry
INVARIANTS
  MemoryKeepsAnswered
  RestartKeepsAnsweredOutsideRename
\* MaxUpdates ends the behaviour.
CHECK_DEADLOCK FALSE
