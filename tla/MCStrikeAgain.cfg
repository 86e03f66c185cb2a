SPECIFICATION RegulatorFairSpec
CONSTANTS
  Start = {60, 200}
  RANGE = 1526
  STABLE_DURATION = 60
  TOF_PERIOD = 10
  PURSUITS = 2
INVARIANT StandsBeforeStrike
CHECK_DEADLOCK FALSE
