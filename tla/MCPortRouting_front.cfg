\* A new pad may be enumerated before the others while the ports are bound.
CONSTANTS
  Ports = 3
  Path = {"red", "blue"}
  NoPath = "none"
  NoFile = NoFile
  Cut <- MCCut
  Files <- MCGamepads
  Envs <- MCEnvs
  Pads = 3
SPECIFICATION Spec
INVARIANT NeverSharedPad
CHECK_DEADLOCK FALSE
