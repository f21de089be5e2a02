\* The framebuffer implements the wall; resizes between all sizes up to 2 x 2.
SPECIFICATION Spec
CONSTANTS
  Blocks = {b1, b2, b3}
  NoBlock = NoBlock
  Blank = Blank
  Pixels = {Blank, red}
  Coords = {0, 1, 2}
  InitSizes <- MCSizes2
  Resizes <- MCSizes2
  Word = 8
  CounterWord = 2
SYMMETRY MCSymmetry
INVARIANTS
  TypeOK
  RestingPictureIsExact
  AnnouncedSizeFits
  UndisturbedStoreFits
PROPERTY
  ImplementsWall
