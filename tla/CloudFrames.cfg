CONSTANTS
  MOVT_WAKEUP = MOVT_WAKEUP
  PIR_WAKEUP = PIR_WAKEUP
  INIT_WAKEUP = INIT_WAKEUP
  Events <- MCCloudEvents
  CloudEvents <- MCCloudEvents
  Pir = PIR_WAKEUP
  Init_Wakeup = INIT_WAKEUP
  Keep = 4
  KeepStarting = 4
  Gop = 2
  Clip = 2
  UploadFails = FALSE
  MemoryFails = FALSE
  ScreenIsLeft = FALSE
  MaxList = 4
  MaxAudio = 1
  MaxCount = 4
  Ring = 6
SPECIFICATION Spec
INVARIANT ClipIsBounded
PROPERTY ClipIsGapless
