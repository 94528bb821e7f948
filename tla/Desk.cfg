SPECIFICATION Spec
CONSTANTS
  w1 = w1
  w2 = w2
  Windows <- MCWindows
  Tiles <- MCWindows
  MaxDesktops = 3
  OverlayFrames = 2
  TransitionFrames = 2
  Threshold = 1
  TileFrames = 3
INVARIANTS
  EachWindowInOnePlace
  SettledWhereTold
  FloatingKept
PROPERTIES
  OverlaySettles
  TilesSettle
