SPECIFICATION Spec
CONSTANTS
  Workers = {w1}
  Images = {i1, i2}
  Torn = Torn
  Missing = Missing
  Unchecked = Unchecked
  Unreadable = Unreadable
  Main = Main
  Nobody = Nobody
SYMMETRY Symmetry
CONSTRAINT OneHazard
INVARIANTS
  NeverPartial
