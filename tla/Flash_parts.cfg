\* The log, the wear levelling environment with and without its safeguard, an
\* update and the partitions, with power losses and flash that fails.
SPECIFICATION FlashSpec
CONSTANTS
  v = v
  w = w
  default = default
  OnFlash <- OnFlashTable
  Offset = 2
  PartLen = 4
  Blk = 2
  DevLen = 8
  Wrap = 16
  Data = {v, w}
  Users = {"block", "mtd", "char", "file", "shell"}
  MaxFaults = 1
  MaxOom = 1
  MaxSize = 2
INVARIANTS  PartitionSafe
PROPERTY StartsFindWhatWasKept
\* A log, a save, an update end when the bounds are reached.
CHECK_DEADLOCK FALSE
