\* Twelve frames of output a chunk: the third halving leaves a frame and a half.
CONSTANTS
  Dup = 4
  OutRate = 12
  FloatBytes = 1
  Low = 3
  Setups <- MCFast
SPECIFICATION QueueSpec
INVARIANT LeftOnLeft
