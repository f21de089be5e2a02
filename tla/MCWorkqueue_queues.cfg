\* Two queues and two jobs; no symmetry because of the liveness.
SPECIFICATION FairSpec
CONSTANTS
  NumQueues = 2
  Jobs = {j1, j2}
  NoJob = NoJob
INVARIANTS
  TypeOK
  ForgottenOnlyAtStart
  NothingLeftBehind
PROPERTIES
  ImplementsJobQueue
  EnqueueReturns
  WorkIsServed
  StopReturnsOutsideWindow
