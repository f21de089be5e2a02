\* Bytes of two values: a coordinate is below four, a colour below sixteen.
SPECIFICATION WireSpec
CONSTANTS
  Byte = 2
  RangeX = 1
  RangeY = 2
  Side = 2
  First = 1
  LastX = 2
  LastY = 2
  Width = 2
  Height = 2
  MapWidth = 3
  MapHeight = 2
  Random <- MCRandom
  MaxInFlight = 2
INVARIANTS WireTypeOK ServersAgree
PROPERTY PaintsWhatWasMeant
