\* Two windows: who polls whose events.
SPECIFICATION Spec
CONSTANTS
  w1 = w1
  w2 = w2
  s1 = s1
  Windows = {w1, w2}
  Screens = {s1}
  Order <- MCTwoWindows
  Blocks = {b1, b2}
  Sizes <- MCSizes
  MaxEvents = 2
  Quit = Quit
INVARIANT
  EventsReachTheirWindow
