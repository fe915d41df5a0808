\* Two tools, two lines, every interleaving with a reading game and TAB.
CONSTANTS
  Client = {c1, c2}
  None = None
  Button = {"A", "B"}
  Axis = {0, 1}
  Turbo = {FALSE, TRUE}
  Backlog = 1
  Lines = 2
SPECIFICATION FairSpec
INVARIANTS
  OverrideInv
  ReadIsHeld
PROPERTY CarriedOut
