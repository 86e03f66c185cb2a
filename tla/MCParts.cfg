SPECIFICATION PartsSpec
CONSTANTS
  Song <- ThreeSongs
  NO_SONG = "NO_SONG"
  length <- Lengths
  LineColor = {"red", "blue"}
  NB_SAMPLE_SCAN = 3
  TIME_TO_SCAN = 4
  CAMERA_POLL = 1
  FRAME_TIME = 1
  EndsBeforeWait = FALSE
  MOTOR_TIMER_FREQ = 100000
  THRESV = 650
  MOTOR_SPEED_LIMIT = 1100
  SPEED_BUTTERFLY = 1000
  SPEED_APPROACH = 600
  SPEED_ROTATION = 700
  AVOIDANCE_SPEED = 700
  ROTATION_SPEED = 200
  SPEED_ANIMATION1 = 700
  SPEED_ANIMATION2 = 250
  PidSpeed = {0, 1, 324, 325, 1101, 32716}
  CounterValue = {0, 1, 4}
  COUNT = 9
  IMAGE_BUFFER_SIZE = 9
  WIDTH_SLOPE = 3
  LINE_WIDTH_MIN = 4
  Pixel = {0, 1, 2}
  SAMPLES = 3
  ROUND = 2
INVARIANTS PartsTypeOK
INVARIANTS NoSongIsLost WaitedEndIsToCome
INVARIANTS NoTornImage VerdictOfThisLook
INVARIANTS WheelsObey OnlyOneMix
INVARIANTS CountFollowsCoils
INVARIANTS SeesOnlyLines SeesEveryLine
INVARIANTS TopicIsAtomic WaitGivesNewMessage CalibrationIsClean
PROPERTIES PartPlaysAskedSong PartGetsMessages PulseFits RotorFollows
