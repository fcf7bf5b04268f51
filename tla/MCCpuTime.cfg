\* Two CPUs, every sequence of switches, complete or not.
CONSTANTS
  c1 = c1
  c2 = c2
  Cpus = {c1, c2}
  VcpuIds <- MCVcpuIds
  EventIds <- MCEventIds
  Idle = 32767
  Runtimes = {1, 2}
  MaxDoms = 2
  MaxNs = 3
  MaxRecords = 4
  NoEvent = NoEvent
  NsModulus = 16
  LongGap = 1
SPECIFICATION MCSpec
CHECK_DEADLOCK FALSE
INVARIANTS TypeOK TimesExact VcpuTimesWithinStints TableExactIfIdsFit
PROPERTY ImplementsLedger
SYMMETRY MCSymmetry
