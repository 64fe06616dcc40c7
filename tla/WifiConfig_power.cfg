\* Writes, the shell, power failures, an area that may fill up.
SPECIFICATION Spec
CONSTANTS
  Keys <- MCKeys
  Values <- MCValues
  Words <- MCWords
  Room = 6
  Configs <- MCConfigs
  Others <- MCOthers
  Default <- MCDefault
  StrayLens <- MCStrayLens
  Strays <- MCStrays
INVARIANT ConfigKept
PROPERTY ReadsBack
