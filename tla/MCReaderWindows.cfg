\* Two CPUs and long gaps: the windows of CpuList and the totals.
CONSTANTS
  c1 = c1
  c2 = c2
  h1 = h1
  h2 = h2
  h3 = h3
  h4 = h4
  NoEvent = NoEvent
  NsModulus = 8
  Cpus <- MCCpus
  EventIds = {1, 2}
  MaxNs = 4
  MaxRecords = 4
  Handlers = {h1}
  EventIdOf <- MCLostRecOnly
  MaxEvents = 1
  LostRecHandlers = {h1}
  LostRecMaxTime = 1
SPECIFICATION MCSortedSpec
INVARIANTS WindowsFollowLog TotalsExact FinalizersSeeTotals
SYMMETRY MCSymmetry
