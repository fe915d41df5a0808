\* One player with a cartridge that is its own save; two files.
CONSTANTS
  Ports = 1
  Path = {"red"}
  NoPath = "none"
  NoFile = NoFile
  Cut <- MCCut
  Src = {0, 1, 3}
  WriteMayFail = FALSE
  Rom = {"base", "a"}
  Legacy = "base"
SPECIFICATION BootSpec
INVARIANTS
  GameBootsCommitted
  SettingsInv
  RemembersPick
PROPERTIES
  ArgumentNotPersisted
  Decided
