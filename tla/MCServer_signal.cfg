\* A signal to a running server.
SPECIFICATION FairSpec
CONSTANTS
  MaxFrontends = 1
  Kinds <- MCKinds
PROPERTY
  SignalEndsServer
