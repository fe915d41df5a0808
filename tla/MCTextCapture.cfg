\* Three strings for a table of two, three routines for a PC set of two, and three
\* tallied PCs for a table of one.
CONSTANTS
  Thread = {t1, t2}
  Server = server
  Key = {k1, k2, k3}
  pa = pa
  ZeroPc = zero
  DrawPc = draw
  PrintfPc = printf
  Pc <- MCPc
  InvCap = 2
  CandCap = 1
  PcCap = 2
  MaxCalls = 3
  MaxRuns = 2
  OpenMayFail = TRUE
SPECIFICATION Spec
INVARIANTS CallsAccounted LogIsTable TallyInv
SYMMETRY Symmetry
CHECK_DEADLOCK FALSE
