SPECIFICATION RegulatorFairSpec
CONSTANTS
  Start = {15, 30, 60, 90, 200, 400, 1000}
  RANGE = 1526
  STABLE_DURATION = 60
  TOF_PERIOD = 10
  PURSUITS = 2
INVARIANTS RegulatorTypeOK ConversionsDefined NeverRuns StrikesAtGoal
PROPERTY EnemyIsReached
CHECK_DEADLOCK FALSE
