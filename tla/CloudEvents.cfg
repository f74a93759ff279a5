CONSTANTS
  MOVT_WAKEUP = MOVT_WAKEUP
  PIR_WAKEUP = PIR_WAKEUP
  INIT_WAKEUP = INIT_WAKEUP
  Events <- MCEvents
  CloudEvents <- MCCloudEvents
  Pir = PIR_WAKEUP
  Init_Wakeup = INIT_WAKEUP
  Keep = 3
  KeepStarting = 3
  Gop = 1
  Clip = 1
  UploadFails = TRUE
  MemoryFails = TRUE
  ScreenIsLeft = TRUE
  MaxList = 1
  MaxAudio = 0
  MaxCount = 3
  Ring = 3
SPECIFICATION Spec
INVARIANTS
  TypeOK
  TimerWhileRecording
  WakesForAStart
PROPERTY PhasesInOrder
