\* One caller, flash operations that fail.
SPECIFICATION Spec
CONSTANTS
  k1 = k1
  k2 = k2
  short = short
  long = long
  t1 = t1
  Keys <- MCKeys
  Values <- MCValues
  Words <- MCWords
  Room = 4
  Default <- MCDefault
  Threads <- OneThread
  Ops <- AllOps
  Faults = {"erase", "write"}
  CountMod = 8
  MaxSaves = 6
CHECK_DEADLOCK TRUE
INVARIANTS SavedSurvivesIfWritten NoTie
