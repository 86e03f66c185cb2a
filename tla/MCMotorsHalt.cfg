CONSTANTS
  MOTOR_TIMER_FREQ = 100000
  THRESV = 650
  MOTOR_SPEED_LIMIT = 1100
  SPEED_BUTTERFLY = 1000
  SPEED_APPROACH = 600
  SPEED_ROTATION = 700
  AVOIDANCE_SPEED = 700
  ROTATION_SPEED = 200
  SPEED_ANIMATION1 = 700
  SPEED_ANIMATION2 = 250
  PidSpeed = {0, 1, 324, 325, 1101, 32716}
SPECIFICATION MotorsSpec
INVARIANT ChannelEnabled
CHECK_DEADLOCK FALSE
