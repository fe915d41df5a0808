\* A path with a comment character in it.
CONSTANTS
  Ports = 1
  Path = {"C#1", "C"}
  NoPath = "none"
  NoFile = NoFile
  Cut <- MCCutComment
  Src = {0, 1, 2, 3}
  WriteMayFail = FALSE
  Rom = {"base"}
  Legacy = "base"
SPECIFICATION BootSpec
INVARIANT GameBootsCommitted
