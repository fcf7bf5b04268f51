CONSTANTS
  c1 = c1
  c2 = c2
  Cpus <- MCCpus
  EventIds = {1}
  MaxNs = 3
  MaxRecords = 4
  NoEvent = NoEvent
SPECIFICATION LogSpec
INVARIANT LastNsTracked
