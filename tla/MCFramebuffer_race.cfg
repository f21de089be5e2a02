\* Resizes under a running DPDK thread; no product wraps.
SPECIFICATION Spec
CONSTANTS
  Blocks = {b1, b2, b3}
  NoBlock = NoBlock
  Blank = Blank
  Pixels = {Blank}
  Coords = {0, 1, 2}
  InitSizes <- MCSizes3
  Resizes <- MCSizes3
  Word = 16
  CounterWord = 2
SYMMETRY MCSymmetry
INVARIANT
  NoWildStore
