\* A save and a deletion while two threads load, on a good disk and a bad one.
CONSTANTS
  Thread = {t1, t2}
  Key = {k1, k2}
  Period = 2
  MaxSaves = 2
  MaxDeletes = 1
  Disk <- MCDisk
SPECIFICATION FairSpec
INVARIANT TableInv
PROPERTIES NeverOlder EventuallyCurrent
