SPECIFICATION Spec
CONSTANTS
  Conn = {c1}
  NoConn = NoConn
  Watchers = {}
  Wakeups = {"KEY", "MOVT"}
  NetMayFail = FALSE
  MaxQueue = 1
  MaxTimers = 1
PROPERTY AnsweredIsNotTimedOut
