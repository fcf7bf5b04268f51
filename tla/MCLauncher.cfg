\* Up to three Ctrl-C at any moment.
CONSTANTS
  MaxInterrupts = 3
SPECIFICATION Spec
CHECK_DEADLOCK FALSE
INVARIANTS NoOrphan AnalysisOnStoppedTrace InterruptOnRecord
PROPERTY InterruptStopsTrace
