CONSTANTS
  Jobs = {j1}
  MaxItems = 2
  Retain = 1
  PipeBound = 2
  MaxCrashes = 1
  NoJob = NoJob
  NoWorker = NoWorker
  Runner = Runner
  ServerStop = ServerStop
SPECIFICATION FairSpec
INVARIANTS WorkerFindable SucceededIsComplete
PROPERTIES CancelWins NoLateResults OnlyForward ActiveEnds CancelAnswered
