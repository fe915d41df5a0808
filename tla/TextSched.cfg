\* Two guest threads, in turns or in parallel, draw with the same font slot for the
\* first time, the server dumps.
CONSTANTS
  Thread = {t1, t2}
  Slot = {s1}
  Glyphs = 3
  Text = {"draw", "sibling", "printf"}
SPECIFICATION SchedSpec
INVARIANTS RenderInv DrawnOnce ReadyComplete
PROPERTIES MetricsOnce CallsEnd
