\* Attempts with up to five failures of every kind; a session may last for ever.
SPECIFICATION FairSpec
CONSTANTS
  Fds = {fd1, fd2}
  DnsTries = 3
  ConnectTries = 2
  NullStore = {"ignored", "fault"}
  MaxFaults = 5
INVARIANTS TypeOK OneSocket 
PROPERTIES TurnedDownWaits Reconnects
CHECK_DEADLOCK FALSE
