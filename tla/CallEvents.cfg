SPECIFICATION Spec
CONSTANTS
  Conn = {c1}
  NoConn = NoConn
  Watchers = {c1}
  Wakeups = {"KEY", "MOVT"}
  NetMayFail = TRUE
  MaxQueue = 1
  MaxTimers = 2
INVARIANTS
  DialIsBounded
  GonePhoneIsStopped
