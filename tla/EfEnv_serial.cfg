\* One caller, flash that works.
SPECIFICATION Spec
CONSTANTS
  k1 = k1
  k2 = k2
  short = short
  long = long
  t1 = t1
  Keys <- MCKeys
  Values <- MCValues
  Words <- MCWords
  Room = 4
  Default <- MCDefault
  Threads <- OneThread
  Ops <- AllOps
  Faults = {}
  CountMod = 8
  MaxSaves = 6
CHECK_DEADLOCK TRUE
INVARIANTS TypeOK OneGoodCopy SavedSurvives
PROPERTY StoreSpec
