\* Two lists and three entries whose memory may hold anything.
SPECIFICATION Spec
CONSTANTS
  a = a
  b = b
  x = x
  y = y
  z = z
  Lists = {a, b}
  Entries = {x, y, z}
  Null = Null
SYMMETRY MCSymmetry
INVARIANTS TypeOK PointersHoldOrder WalkFindsOrder
