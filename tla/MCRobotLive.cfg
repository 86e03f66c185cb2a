SPECIFICATION FairSpec
CONSTANTS
  Dist <- NearOnly
  MIN_SCAN_DIST = 0
  MAX_SCAN_DIST = 4
  INT16_DIST = 4
  SCAN_DIST = 2
  TIME_TO_SCAN = 1
  BAR_DIST = 1
  BEER_WAIT = 1
  STABLE_DURATION = 0
  TIME_ANIMATION1 = 1
  TIME_ANIMATION2 = 1
  TIME_TURN_BUTTERFLY = 1
  TIME_SEGMENT_BUTTERFLY = 1
  BUTTERFLY_WAIT_TIME = 1
  ProxValues <- NoObstacle
  CALIBRATION_TIME = 1
  AVOIDANCE_DURATION = 1
  TIMEOUR_BEER_STROLL = 0
  TRANSITION_SONG_DURATION = 3
  TAVERN_REFRESH = 1
PROPERTIES PausedWalkRests FindingIsUsed BeerEndsInStroll StrikeEndsHunt
