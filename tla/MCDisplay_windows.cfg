\* Two windows, which share the event queue and the picture, and a VNC screen.
SPECIFICATION FairSpec
CONSTANTS
  w1 = w1
  w2 = w2
  s1 = s1
  Windows = {w1, w2}
  Screens = {s1}
  Order <- MCTwoWindows
  Blocks = {b1, b2}
  Sizes <- MCSizes
  MaxEvents = 2
  Quit = Quit
INVARIANTS
  TypeOK
  WindowFollowed
  PictureFollowed
  UploadInside
PROPERTY
  CloseEndsLoop
