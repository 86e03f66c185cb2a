--------------------------- MODULE AvoidObstacles ---------------------------
(***************************************************************************)
(* avoid_obstacles.c: the thread that turns the robot away from what its   *)
(* eight proximity sensors see, and the functions that pause and resume    *)
(* it.  A message of the "/proximity" topic is the set of the sensors that *)
(* see an obstacle (abs(delta) above PROXIMITY_THRESHOLD).  is_paused is   *)
(* read only between two messages that were dealt with to the end.         *)
(***************************************************************************)
EXTENDS Platform

CONSTANTS
  ProxValues,           (* the messages the topic may carry           *)
  CALIBRATION_TIME,     (* ticks calibrate_ir takes                   *)
  AVOIDANCE_DURATION    (* ticks before the robot may move on without *)
                        (* having turned its back on the obstacle     *)

Sensor == 0..7
PROXIMITY_NB_HALF == 4
LastChecked == 6        (* the loop stops at PROXIMITY_NB_CHANNELS - 1 *)
Back == {3, 4}
Front == {0, 1, 6, 7}

ASSUME AvoidAssumption ==
  /\ ProxValues \subseteq SUBSET Sensor
  /\ CALIBRATION_TIME \in Nat \ {0}
  /\ AVOIDANCE_DURATION \in Nat

VARIABLES
  avoid_is_paused, avoid_thd_is_created,
  avoid_pc,      (* none, calibrate, poll, topic, turning, leaving          *)
  avoid_i,       (* the sensor whose obstacle is being avoided              *)
  prox_values,   (* the message being dealt with; {} when it is of no use   *)
  time_avoid,    (* ticks since this turn began                             *)
  avoid_sleep

avoidFlags == <<avoid_is_paused, avoid_thd_is_created>>
avoidThread == <<avoid_pc, avoid_i, prox_values, time_avoid, avoid_sleep>>
avoidVars == <<avoidFlags, avoidThread>>

AvoidTypeOK ==
  /\ avoid_is_paused \in BOOLEAN
  /\ avoid_thd_is_created \in BOOLEAN
  /\ avoid_pc \in {"none", "calibrate", "poll", "topic", "turning", "leaving"}
  /\ avoid_i \in 0..LastChecked
  /\ prox_values \in SUBSET Sensor
  /\ time_avoid \in 0..(AVOIDANCE_DURATION + 1)
  /\ avoid_sleep \in Nat

AvoidInit ==
  /\ avoid_is_paused = FALSE
  /\ avoid_thd_is_created = FALSE
  /\ avoid_pc = "none"
  /\ avoid_i = 0
  /\ prox_values = {}
  /\ time_avoid = 0
  /\ avoid_sleep = 0

-----------------------------------------------------------------------------
(* avoid_obstacles.h.  The thread is created once, at boot; it outranks    *)
(* main, but begins with its calibration, so that it is paused before it   *)
(* reads the flag.                                                         *)

avoid_obstacles_start_and_pause ==
  /\ avoid_thd_is_created' = TRUE
  /\ avoid_is_paused' = TRUE
  /\ avoid_pc' = "calibrate"
  /\ avoid_sleep' = CALIBRATION_TIME
  /\ UNCHANGED <<avoid_i, prox_values, time_avoid>>

avoid_obstacles_pause_thd ==
  avoid_is_paused' = (avoid_is_paused \/ avoid_thd_is_created)

avoid_obstacles_resume_thd ==
  avoid_is_paused' = (avoid_is_paused /\ ~avoid_thd_is_created)

-----------------------------------------------------------------------------
(* The thread.                                                             *)

AvoidCalibrated ==
  /\ avoid_pc = "calibrate"
  /\ avoid_sleep = 0
  /\ avoid_pc' = "poll"
  /\ avoid_sleep' = POLL
  /\ UNCHANGED <<avoidFlags, avoid_i, prox_values, time_avoid, motor>>

AvoidIdle ==
  /\ avoid_pc = "poll"
  /\ avoid_is_paused
  /\ avoid_sleep' = POLL
  /\ UNCHANGED <<avoidFlags, avoid_pc, avoid_i, prox_values, time_avoid, motor>>

AvoidListen ==
  /\ avoid_pc = "poll"
  /\ ~avoid_is_paused
  /\ avoid_pc' = "topic"
  /\ avoid_sleep' = POLL
  /\ UNCHANGED <<avoidFlags, avoid_i, prox_values, time_avoid, motor>>

(* The obstacles that message m shows to the sensors from number first on. *)
Seen(m, first) == {k \in first..LastChecked : k \in m}

(* Turn until the obstacle is behind, or after a while not in front.       *)
TurnDone(m, elapsed) ==
  \/ m \cap Back # {}
  \/ elapsed > AVOIDANCE_DURATION /\ m \cap Front = {}

Forward(m) ==
  /\ set_speeds("avoid", 1, 1)
  /\ avoid_pc' = "leaving"
  /\ prox_values' = m
  /\ time_avoid' = 0
  /\ avoid_sleep' = POLL

(* The for loop resumed at sensor first with message m, up to its next     *)
(* sleep or wait.                                                          *)
AvoidFrom(m, first) ==
  IF Seen(m, first) = {}
  THEN /\ avoid_pc' = "poll"
       /\ avoid_i' = 0
       /\ prox_values' = {}
       /\ time_avoid' = 0
       /\ avoid_sleep' = POLL
  ELSE \E i \in Seen(m, first) :
         /\ \A j \in Seen(m, first) : i <= j
         /\ avoid_i' = i
         /\ IF TurnDone(m, 0)
            THEN Forward(m)
            ELSE /\ IF i < PROXIMITY_NB_HALF
                    THEN set_speeds("avoid", -1, 1)
                    ELSE set_speeds("avoid", 1, -1)
                 /\ avoid_pc' = "turning"
                 /\ prox_values' = m
                 /\ time_avoid' = 0
                 /\ avoid_sleep' = POLL

AvoidMessage ==
  /\ avoid_pc = "topic"
  /\ \E m \in ProxValues :
       /\ AvoidFrom(m, 0)
       /\ Seen(m, 0) = {} => UNCHANGED motor
  /\ UNCHANGED avoidFlags

AvoidTurning ==
  /\ avoid_pc = "turning"
  /\ \E m \in ProxValues :
       IF TurnDone(m, time_avoid)
       THEN Forward(m)
       ELSE /\ prox_values' = m
            /\ avoid_sleep' = POLL
            /\ UNCHANGED <<avoid_pc, time_avoid, motor>>
  /\ UNCHANGED <<avoidFlags, avoid_i>>

(* Seeded fault: the motors are not stopped once away from the obstacle. *)
AvoidLeaveRolling ==
  /\ avoid_pc = "leaving"
  /\ AvoidFrom(prox_values, avoid_i + 1)
  /\ Seen(prox_values, avoid_i + 1) = {} => UNCHANGED motor
  /\ UNCHANGED avoidFlags

(* Away from the obstacle: stop, and go on with the next sensor.           *)
AvoidLeave ==
  /\ avoid_pc = "leaving"
  /\ AvoidFrom(prox_values, avoid_i + 1)
  /\ Seen(prox_values, avoid_i + 1) = {} => set_speeds("avoid", 0, 0)
  /\ UNCHANGED avoidFlags

avoid_obstacles ==
  \/ AvoidCalibrated \/ AvoidIdle \/ AvoidListen
  \/ AvoidMessage \/ AvoidTurning \/ AvoidLeave

AvoidWaits == avoid_pc = "none" \/ avoid_sleep > 0

AvoidElapse ==
  /\ avoid_sleep' = Remaining(avoid_sleep)
  /\ time_avoid' = IF avoid_pc = "turning"
                   THEN Older(time_avoid, AVOIDANCE_DURATION) ELSE time_avoid
  /\ UNCHANGED <<avoidFlags, avoid_pc, avoid_i, prox_values>>
=============================================================================
