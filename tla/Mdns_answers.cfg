\* The finder's thread, questions from all sides, an address that comes and goes.
SPECIFICATION FairSpec
CONSTANTS
  LabelLen <- MCLabelLen
  NUM_DOMAIN_OFFSETS = 10
  MaxJumps = 5
  Addrs <- MCAddrs
  Questions <- MCQuestions
  OUTPACKET_SIZE = 500
INVARIANTS MdnsSafe ThreadsAgree
PROPERTY AddressSpreads
CHECK_DEADLOCK FALSE
