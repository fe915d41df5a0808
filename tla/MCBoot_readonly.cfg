\* launcher.cfg cannot be opened.
CONSTANTS
  Ports = 1
  Path = {"red"}
  NoPath = "none"
  NoFile = NoFile
  Cut <- MCCut
  Src = {0, 1, 2, 3}
  WriteMayFail = TRUE
  Rom = {"base"}
  Legacy = "base"
SPECIFICATION BootSpec
INVARIANT GameBootsCommitted
