\* Every launcher.cfg over three ports; pads come and go, a new one
\* anywhere among the others.
CONSTANTS
  Ports = 3
  Path = {"red", "blue"}
  NoPath = "none"
  NoFile = NoFile
  Cut <- MCCut
  Files <- MCFiles
  Envs <- MCEnvs
  Pads = 2
SPECIFICATION FairSpec
INVARIANTS
  RoutingInv
  RumbleIsInput
PROPERTIES
  PresenceStable
  BoundPadPlays
\* Once every pad was pulled out nothing changes any more.
CHECK_DEADLOCK FALSE
