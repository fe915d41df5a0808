\* A cartridge from the environment on a port launcher.cfg leaves out.
CONSTANTS
  Ports = 3
  Path = {"red", "blue"}
  NoPath = "none"
  NoFile = NoFile
  Cut <- MCCut
  Files <- MCOneFile
  Envs <- MCEnvs
  Pads = 0
SPECIFICATION Spec
INVARIANT CartReported
CHECK_DEADLOCK FALSE
