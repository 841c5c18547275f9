CONSTANTS
  Jobs = {j1, j2}
  MaxItems = 1
  Retain = 1
  PipeBound = 1
  MaxCrashes = 1
  NoJob = NoJob
  NoWorker = NoWorker
  Runner = Runner
  ServerStop = ServerStop
SYMMETRY Symmetry
SPECIFICATION Spec
INVARIANTS TypeOK ActiveRowIffTask OwnTarget OnlyDrainHangs
PROPERTY ImplementsLifecycle
