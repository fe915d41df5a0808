\* textpc_contains asked about the address 0 a name without digits parses to.
CONSTANTS
  Thread = {t1, t2}
  pa = pa
  pb = pb
  pd = pd
  pe = pe
  NoPc = NoPc
  Pc <- MCPc
  Query <- MCQueryZero
  Hash <- MCHash
  N = 2
SPECIFICATION Spec
INVARIANT GateOnlyFlagged
