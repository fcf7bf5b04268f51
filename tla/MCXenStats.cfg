\* Two kinds with a row per domain and one of Xen's own, two types.
CONSTANTS
  c1 = c1
  c2 = c2
  k1 = k1
  k2 = k2
  t1 = t1
  t2 = t2
  Cpus = {c1, c2}
  DomainKinds = {k1, k2}
  XenKinds = {inXen}
  Doms = {1, 32767}
  Idle = 32767
  Types = {t1, t2}
  MaxDoms = 2
  CountModulus = 2
  EventIds <- MCEventIds
  MaxNs = 3
  MaxRecords = 4
  NoEvent = NoEvent
  NsModulus = 16
  LongGap = 1
SPECIFICATION Spec
CHECK_DEADLOCK FALSE
INVARIANTS TypeOK CountsExact
SYMMETRY MCSymmetry
