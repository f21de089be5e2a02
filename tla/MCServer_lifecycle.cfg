\* Up to three frontends of any kind, started from the last to the first.
SPECIFICATION FairSpec
CONSTANTS
  MaxFrontends = 3
  Kinds <- MCKinds
INVARIANTS
  TypeOK
  NamesFreedExactlyOnce
  FaultsConfined
  ZeroMeansUnknownFrontend
PROPERTY
  SignalStopsReceiving
