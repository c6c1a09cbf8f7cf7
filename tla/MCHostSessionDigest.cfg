SPECIFICATION Spec
CONSTANTS
  h1 = h1
  h2 = h2
  Helpers = {h1, h2}
  Main = Main
  Nobody = Nobody
  MaxItems = 3
  MaxInput = 2
INVARIANTS OutputDigest
SYMMETRY Symmetry
CHECK_DEADLOCK FALSE
