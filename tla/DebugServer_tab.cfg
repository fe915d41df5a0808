\* A tool switches fast-forward while TAB is held.
CONSTANTS
  Client = {c1}
  None = None
  Button = {"A"}
  Axis = {0, 1}
  Turbo = {FALSE, TRUE}
  Backlog = 1
  Lines = 2
SPECIFICATION Spec
INVARIANT TabForces
