SPECIFICATION FairSpec
CONSTANTS
  Conn = {c1, c2}
  NoConn = NoConn
  Watchers = {}
  Wakeups = {}
  NetMayFail = FALSE
  MaxQueue = 1
  MaxTimers = 1
INVARIANTS
  TypeOK
  OneDevicePeer
  OneTalker
PROPERTIES
  ImplementsScreen
  DialEnds
  HangupIsHonoured
  GonePeerEndsCall
  GonePhoneIsForgotten
