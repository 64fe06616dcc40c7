\* The network services and libraries, one at a time.
SPECIFICATION Spec
CONSTANTS
  HttpOps = {"bootstrap", "request", "get_file", "post_file"}
  HttpReplies <- Replies
  Buf = 2
  MaxRedirects = 1
  MaxLate = 1
  LookupRetries = 2
  LookupTimeout = 1
  LookupReplies = {"address", "alias", "none"}
  MaxConnects = 2
  MaxLost = 1
  TftpClients = {"a", "b"}
  Jobs <- AllJobs
  Full = 1
  TftpTimeout = 1
  TftpRetries = 1
  MaxChains = 3
  TftpFaults = 2
  Callers = {"clock", "shell"}
  Servers = {"s", "t"}
  Stamps = {20, 37}
  Seconds = 64
  NtpBase = 8
  NtpDelta = 20
  Zone = 2
  Day = 4
  TickValues = 5
  NtpTimeout = 1
  Nap = 2
  Starts = {0, 2}
  MaxSeconds = 1
  NtpFaults = 1
  Attempts = 1
  Wait = 3
  PerSecond = 2
  Ahead = 5
  Begins = {1, 2}
  MaxReplies = 2
  PingHosts = {"a", "b"}
  EchoTimes = {2}
  MaxCalls = 2
  MaxAnswers = 2
  MaxForeign = 1
  PingFaults = 1
  Password <- Knock
  RecvSize = 5
  Datagrams <- Beeps
  Sockets = 2
  MaxQueued = 2
  MaxReceived = 3
  FinderFaults = 2
INVARIANTS LibrariesSafe ServersSafe TimeSafe ClientsSafe
PROPERTY ServicesGoOn
\* Requests, transfers and calls end when the bounds are reached.
CHECK_DEADLOCK FALSE
