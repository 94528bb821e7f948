SPECIFICATION Spec
CONSTANTS
  Workers = {w1, w2}
  Images = {i1, i2}
  Torn = Torn
  Missing = Missing
  Unchecked = Unchecked
  Unreadable = Unreadable
  Main = Main
  Nobody = Nobody
SYMMETRY Symmetry
CONSTRAINT OneHazard
PROPERTIES
  StrictlyToStandby
