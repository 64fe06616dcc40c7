\* Button and LED with any pattern of presses and any number of sessions.
SPECIFICATION FairSpec
CONSTANTS
  DEBOUNCE_TIME = 2
  LONG_CYCLE = 2
  DOUBLE_TIME = 3
  LONG_TIME = 3
  ByteMax = 7
  SlowBlink = 2
INVARIANTS TypeOK InStep LongMeansHeld SteadyInSession BlinkInPhase
PROPERTIES DoubleAfterClick HoldIsSeen
