\* The file exists but one fopen of it fails.
CONSTANTS
  Thread = {t1, t2}
  Key = {k1, k2}
  Period = 2
  MaxSaves = 1
  MaxDeletes = 1
  Disk <- MCLocked
SPECIFICATION FairSpec
PROPERTY ReloadsAfterFailedOpen
