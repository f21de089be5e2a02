\* The wakeup that stop_workqueue loses.
SPECIFICATION FairSpec
CONSTANTS
  NumQueues = 1
  Jobs = {j1}
  NoJob = NoJob
PROPERTY
  DeinitReturns
