\* Three slots, four addresses: adds race, the table fills and drops one.
CONSTANTS
  Thread = {t1, t2}
  pa = pa
  pb = pb
  pd = pd
  pe = pe
  NoPc = NoPc
  Pc <- MCPc
  Query <- MCQuery
  Hash <- MCHash
  N = 3
SPECIFICATION FairSpec
INVARIANTS NoDuplicate ProbeChain ReadYourWrites IInv DroppedOnlyWhenFull
PROPERTIES RefinesPcSet CallsEnd
