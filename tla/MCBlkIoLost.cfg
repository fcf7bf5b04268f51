\* What a lost record adds to a queue's times.
CONSTANTS
  c1 = c1
  c2 = c2
  q1 = q1
  none = none
  NoQueue = none
  Cpus <- MCCpus
  EventIds <- MCEventIds
  MaxNs = 4
  MaxRecords = 4
  NoEvent = NoEvent
  NsModulus = 6
  NoCpu = NoCpu
  Queues = {q1}
  SampledOn <- MCSampledOn
  Freed = Freed
SPECIFICATION Spec
CHECK_DEADLOCK FALSE
PROPERTY CreditsTimeBeforeGap
