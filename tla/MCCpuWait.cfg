\* Two domains, one of them with two VCPUs, or one domain and many resets.
CONSTANTS
  c1 = c1
  Cpus = {c1}
  EventIds <- MCEventIds
  MaxNs = 4
  MaxRecords = 8
  NoEvent = NoEvent
  NsModulus = 8
  Doms = {0, 1}
  Vcpus = {0, 1}
  MaxDoms = 2
  BucketSize = 1
  NumSamples = 2
  LongGap = 1
  Freed = Freed
SPECIFICATION MCSpec
CHECK_DEADLOCK FALSE
INVARIANTS TypeOK WaitsExact TotalIsSum 
