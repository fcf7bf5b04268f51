\* Two CPUs, every sequence of exits, complete or not.  A time is measured from
\* what its entry held, so one value of it, at which the word wraps, is enough.
CONSTANTS
  c1 = c1
  c2 = c2
  Cpus = {c1, c2}
  EventIds <- MCEventIds
  MaxNs = 4
  MaxRecords = 5
  NoEvent = NoEvent
  NsModulus = 16
  Doms = {0, 1, 32767}
  Idle = 32767
  MaxDoms = 2
  Garbage = {15}
SPECIFICATION MCSpec
CHECK_DEADLOCK FALSE
INVARIANTS TypeOK ExactIfComplete
PROPERTY ImplementsLedger
SYMMETRY MCSymmetry
