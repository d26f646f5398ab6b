SPECIFICATION Spec
CONSTANTS
  Plain = {"x"}
  Buffers <- MCBuffers
  Lit <- MCLit
  MaxBytes = 5
  MaxLine = 3
INVARIANTS
  LineEndingsNormalised
  ScreenShowsLine
CHECK_DEADLOCK FALSE
