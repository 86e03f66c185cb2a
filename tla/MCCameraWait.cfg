SPECIFICATION CameraFairSpec
CONSTANTS
  LineColor = {"red"}
  NB_SAMPLE_SCAN = 1
  TIME_TO_SCAN = 3
  CAMERA_POLL = 1
  FRAME_TIME = 1
  EndsBeforeWait = TRUE
PROPERTY WaitEnds
