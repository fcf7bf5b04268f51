\* One queue, one channel, two CPUs: every log of a few records.
CONSTANTS
  c1 = c1
  c2 = c2
  q1 = q1
  ch1 = ch1
  none = none
  NoQueue = none
  Cpus <- MCCpus
  EventIds <- MCEventIds
  MaxNs = 4
  MaxRecords = 5
  NoEvent = NoEvent
  NsModulus = 6
  NoCpu = NoCpu
  Queues = {q1}
  SampledOn <- MCSampledOn
  Freed = Freed
  Channels = {ch1}
  BucketSizes = {2}
SPECIFICATION MCSpec
CHECK_DEADLOCK FALSE
INVARIANTS IoTypeOK TimesAddUp SamplesAgree TimesExact  WaitsExact WaitSamplesAgree HistogramHasSamples
PROPERTY WaitsImplementLedger
SYMMETRY MCSymmetry
