\* A save is tried again after an erase that failed.
SPECIFICATION Spec
CONSTANTS
  k1 = k1
  k2 = k2
  short = short
  long = long
  t1 = t1
  Keys <- MCKeys
  Values <- MCValues
  Words <- MCWords
  Room = 4
  Default <- MCDefault
  Threads <- OneThread
  Ops <- NoReset
  Faults = {"erase"}
  CountMod = 8
  MaxSaves = 6
CHECK_DEADLOCK TRUE
INVARIANT OneGoodCopy
