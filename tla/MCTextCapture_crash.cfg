\* The process dies while stringdump.log is being rewritten.
CONSTANTS
  Thread = {t1, t2}
  Server = server
  Key = {k1, k2, k3}
  pa = pa
  ZeroPc = zero
  DrawPc = draw
  PrintfPc = printf
  Pc <- MCPc
  InvCap = 2
  CandCap = 1
  PcCap = 2
  MaxCalls = 3
  MaxRuns = 2
  OpenMayFail = FALSE
SPECIFICATION Spec
PROPERTY CrashKeepsInventory
CHECK_DEADLOCK FALSE
