\* Two guest threads that take turns draw with the same font slot for the first
\* time, the server dumps.
CONSTANTS
  Thread = {t1, t2}
  Slot = {s1}
  Glyphs = 3
  Text = {"draw"}
SPECIFICATION SchedSpec
PROPERTY CallsEndAnyway
