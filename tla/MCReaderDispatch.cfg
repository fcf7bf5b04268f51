\* Every subset of four handlers in every order of registration, on short logs.
CONSTANTS
  c1 = c1
  c2 = c2
  h1 = h1
  h2 = h2
  h3 = h3
  h4 = h4
  NoEvent = NoEvent
  NsModulus = 8
  Cpus = {c1}
  EventIds = {1, 2, 3}
  MaxNs = 2
  MaxRecords = 2
  Handlers = {h1, h2, h3, h4}
  EventIdOf <- MCManyHandlers
  MaxEvents = 2
  LostRecHandlers = {}
  LostRecMaxTime = 1
SPECIFICATION Spec
INVARIANTS TypeOK CallOrder CallsComplete SlotsCompact
PROPERTIES Terminates
