CONSTANTS
  p = p
  q = q
  a = a
  b = b
  c = c
  NoAddr = NoAddr
  Callers <- MCCallers
  Addrs <- MCAddrs
  Sizes = {1, 2}
  MaxCalls = 3
SPECIFICATION TrackerSpec
INVARIANT RecordsAreLive
INVARIANT LeakReportExact
CHECK_DEADLOCK FALSE
