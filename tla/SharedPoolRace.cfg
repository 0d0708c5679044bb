SPECIFICATION Spec
CONSTANTS
  Block = {b1, b2, b3}
  None = None
  Buffers = 2
  Shapes = {{"input", "output"}}
INVARIANT NoneCounted
