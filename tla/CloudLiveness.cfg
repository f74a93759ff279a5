CONSTANTS
  MOVT_WAKEUP = MOVT_WAKEUP
  PIR_WAKEUP = PIR_WAKEUP
  INIT_WAKEUP = INIT_WAKEUP
  Events <- MCCloudEvents
  CloudEvents <- MCCloudEvents
  Pir = PIR_WAKEUP
  Init_Wakeup = INIT_WAKEUP
  Keep = 3
  KeepStarting = 3
  Gop = 1
  Clip = 1
  UploadFails = TRUE
  MemoryFails = FALSE
  ScreenIsLeft = FALSE
  MaxList = 1
  MaxAudio = 1
  MaxCount = 3
  Ring = 3
SPECIFICATION FairSpec
PROPERTIES
  ClipStarts
  ClipEnds
