SPECIFICATION SmallSpec
CONSTANTS
  Dist <- FourDistances
  MIN_SCAN_DIST = 0
  MAX_SCAN_DIST = 4
  INT16_DIST = 4
  SCAN_DIST = 2
  TIME_TO_SCAN = 2
  BAR_DIST = 2
  BEER_WAIT = 2
  STABLE_DURATION = 2
  TIME_ANIMATION1 = 1
  TIME_ANIMATION2 = 1
  Peer = {"main", "Scan", "thd_walk", "proximity_thd"}
  Higher = {"avoid_obstacles", "VL53L0X"}
  Looping = {"main", "Scan"}
  Telling = {"proximity_thd"}
  idle = "idle"
  prio <- Priorities
  CH_CFG_TIME_QUANTUM = 3
  BURST = 2
INVARIANT NothingIsLeftOn
PROPERTIES StopIsNotLost KeepsPeers PartRunsEveryPeer
