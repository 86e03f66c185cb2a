----------------------------- MODULE PidRegulator ---------------------------
(***************************************************************************)
(* The numbers of pid_distance.c, which PidDistance leaves out: the moving *)
(* average in a uint16_t, the regulator with its capped sum of errors and  *)
(* its cast to int16_t, and all their statics, which outlive a pursuit.    *)
(* They are closed into a loop with the world: the wheels move the robot,  *)
(* and the sensor measures every TOF_PERIOD iterations what the thread     *)
(* reads in each.  The thread makes an iteration every 10 ms.              *)
(*                                                                         *)
(* KI and KD are 1.4: the sum of errors is counted in sevenths and a speed *)
(* in fifths, which makes them integers.  The code's floats round.         *)
(***************************************************************************)
EXTENDS Integers

CONSTANTS
  Start,             (* where the enemy may stand when a pursuit begins, mm  *)
  RANGE,             (* how far the sensor sees, mm                          *)
  STABLE_DURATION,   (* in iterations                                        *)
  TOF_PERIOD,        (* iterations from a measurement to the next            *)
  PURSUITS           (* bound: pursuits in a row                             *)

(* Farther away than RANGE the speed would not fit its type.               *)
ASSUME RegulatorAssumption ==
  /\ RANGE \in 50..1526
  /\ Start \subseteq 1..RANGE
  /\ STABLE_DURATION \in Nat
  /\ {TOF_PERIOD, PURSUITS} \subseteq Nat \ {0}

GOAL_DIST == 50
ERROR_THRESHOLD == 20
NB_SAMPLES == 10
MAX_SUM_ERROR == 5500         (* MOTOR_SPEED_LIMIT / KI, in sevenths *)
MOTOR_SPEED_LIMIT == 1100
UINT16 == 65536
INT16_MAX == 32767

VARIABLES
  previous_distance, circular_buffer,    (* get_mean_distance_mm's statics   *)
  sum_error, previous_error,             (* pid_regulator's                  *)
  stable_time,                           (* the thread's, as the iterations  *)
                                         (* since it was set                 *)
  speed,
  phase,                                 (* of an iteration; or it is over   *)
  standing,       (* iterations since this pursuit last moved                *)
  distance,       (* to the enemy, in ten-thousandths of a mm                *)
  dist_mm, tof,   (* the last measurement and the iterations to the next     *)
  enemy_moved, pursuit

statics == <<previous_distance, circular_buffer, sum_error, previous_error, stable_time>>
world == <<distance, dist_mm, tof, enemy_moved, pursuit>>
regulatorVars == <<statics, speed, phase, standing, world>>

Unset == -1
Mm(d) == 10000 * d
Reading == 0..RANGE
InInt16(n) == n \in Int /\ -INT16_MAX - 1 <= n /\ n <= INT16_MAX
Capped(n, most) == IF n > most THEN most ELSE IF n < -most THEN -most ELSE n

RegulatorTypeOK ==
  /\ previous_distance \in [0..(NB_SAMPLES - 1) -> Reading]
  /\ circular_buffer \in 0..(NB_SAMPLES - 1)
  /\ sum_error \in -MAX_SUM_ERROR..MAX_SUM_ERROR
  /\ previous_error \in -GOAL_DIST..(RANGE - GOAL_DIST)
  /\ stable_time \in {Unset} \cup 0..(STABLE_DURATION + 1)
  /\ InInt16(speed)
  /\ phase \in {"compute", "move", "over"}
  /\ standing \in 0..(STABLE_DURATION + 1)
  /\ distance \in Nat
  /\ dist_mm \in Reading
  /\ tof \in 1..TOF_PERIOD
  /\ enemy_moved \in BOOLEAN
  /\ pursuit \in 1..PURSUITS

RegulatorInit ==
  /\ previous_distance = [i \in 0..(NB_SAMPLES - 1) |-> 0]
  /\ circular_buffer = 0
  /\ sum_error = 0 /\ previous_error = 0
  /\ stable_time = Unset
  /\ speed = 0
  /\ phase = "compute"
  /\ standing = 0
  /\ \E d \in Start : distance = Mm(d) /\ dist_mm = d
  /\ tof \in 1..TOF_PERIOD
  /\ enemy_moved = FALSE
  /\ pursuit = 1

-----------------------------------------------------------------------------
(* get_mean_distance_mm, of the window w.                                  *)
Total(w) == (w[0] + w[1] + w[2] + w[3] + w[4]) + (w[5] + w[6] + w[7] + w[8] + w[9])
Mean(w) == (Total(w) % UINT16) \div NB_SAMPLES

get_mean_distance_mm ==
  /\ previous_distance' = [previous_distance EXCEPT ![circular_buffer] = dist_mm]
  /\ circular_buffer' = (circular_buffer + 1) % NB_SAMPLES

(* A float of n fifths becomes an int16_t: what does not fit is undefined, *)
(* and is cut to 16 bits or saturated by the build.                        *)
Truncated(n) == IF n >= 0 THEN n \div 5 ELSE -((-n) \div 5)
Fits(n) == InInt16(Truncated(n))
Int16(n) ==
  IF Fits(n) THEN {Truncated(n)}
  ELSE { ((Truncated(n) + INT16_MAX + 1) % UINT16) - (INT16_MAX + 1),
         Capped(Truncated(n), INT16_MAX) }

(* Seeded fault: the sum is not capped. *)
UncappedSum(error) == sum_error + 7 * error

(* Seeded fault: the sum runs against the error. *)
ContrarySum(error) == Capped(sum_error - 7 * error, MAX_SUM_ERROR)

Sum(error) == Capped(sum_error + 7 * error, MAX_SUM_ERROR)

(* KP * error + KI * sum_error + KD * (error - previous_error).            *)
Speed(error) == 100 * error + Sum(error) + 7 * (error - previous_error)

(* Seeded fault: too near counts as near enough. *)
SmallUnsigned(error) == error < ERROR_THRESHOLD

Small(error) == -ERROR_THRESHOLD < error /\ error < ERROR_THRESHOLD

pid_regulator(error) ==
  IF Small(error)
  THEN speed' = 0 /\ UNCHANGED <<sum_error, previous_error>>
  ELSE /\ sum_error' = Sum(error)
       /\ speed' \in Int16(Speed(error))
       /\ previous_error' = error

NextError == Mean([previous_distance EXCEPT ![circular_buffer] = dist_mm]) - GOAL_DIST

One_more(n) == IF n > STABLE_DURATION THEN n ELSE n + 1

-----------------------------------------------------------------------------
(* An iteration of the thread up to its sleep: it strikes, and is over, or *)
(* goes on.                                                                *)
Iterate ==
  /\ phase = "compute"
  /\ get_mean_distance_mm
  /\ pid_regulator(NextError)
  /\ IF speed' = 0
     THEN /\ stable_time' = IF stable_time = Unset THEN 0 ELSE stable_time
          /\ phase' = IF stable_time' > STABLE_DURATION THEN "over" ELSE "move"
          /\ UNCHANGED standing
     ELSE stable_time' = 0 /\ standing' = 0 /\ phase' = "move"
  /\ UNCHANGED world

(* The 10 ms of sleep.  1000 steps are 130 mm of road.                     *)
Move ==
  /\ phase = "move"
  /\ distance' = LET d == distance - 13 * Capped(speed, MOTOR_SPEED_LIMIT)
                 IN  IF d < 0 THEN 0 ELSE d
  /\ IF tof = 1
     THEN /\ dist_mm' = distance' \div Mm(1)
          /\ dist_mm' <= RANGE
          /\ tof' = TOF_PERIOD
     ELSE tof' = tof - 1 /\ UNCHANGED dist_mm
  /\ stable_time' = One_more(stable_time)
  /\ standing' = One_more(standing)
  /\ phase' = "compute"
  /\ UNCHANGED <<previous_distance, circular_buffer, sum_error, previous_error, speed,
                 enemy_moved, pursuit>>

(* Once in a pursuit the enemy moves, when the robot has just caught up.   *)
EnemyMoves ==
  /\ phase = "move" /\ standing = NB_SAMPLES /\ ~enemy_moved
  /\ \E d \in Start : distance' = Mm(d)
  /\ enemy_moved' = TRUE
  /\ UNCHANGED <<statics, speed, phase, standing, dist_mm, tof, pursuit>>

(* The next pursuit, after the victory song and a scan.                    *)
PursueAgain ==
  /\ phase = "over" /\ pursuit < PURSUITS
  /\ pursuit' = pursuit + 1
  /\ \E d \in Start : distance' = Mm(d) /\ dist_mm' = d
  /\ tof' \in 1..TOF_PERIOD
  /\ phase' = "compute"
  /\ speed' = 0
  /\ standing' = 0
  /\ enemy_moved' = FALSE
  /\ stable_time' = STABLE_DURATION + 1
  /\ UNCHANGED <<previous_distance, circular_buffer, sum_error, previous_error>>

RegulatorNext == Iterate \/ Move \/ EnemyMoves \/ PursueAgain

RegulatorSpec == RegulatorInit /\ [][RegulatorNext]_regulatorVars

RegulatorFairSpec ==
  RegulatorSpec /\ WF_regulatorVars(Iterate) /\ WF_regulatorVars(Move)

-----------------------------------------------------------------------------
(* The cast of the speed to int16_t (pid_distance.c:64) is defined, and    *)
(* the sum of the readings does not wrap (line 30), as long as the sensor  *)
(* sees something within RANGE; whatever the last pursuit has left behind. *)
ConversionsDefined ==
  /\ Total(previous_distance) < UINT16
  /\ Fits(Speed(NextError))

(* The robot does not run into the enemy: neither what is left of the sum  *)
(* of errors of a long approach, nor the age of the measurement and the    *)
(* average over it carries it too far.                                     *)
NeverRuns == distance > 0

(* It strikes at the distance it is told to keep, give or take the         *)
(* threshold and a measurement's rounding; in its first pursuit.           *)
StrikesAtGoal ==
  phase = "over" /\ pursuit = 1 =>
    /\ Mm(GOAL_DIST - ERROR_THRESHOLD) < distance
    /\ distance < Mm(GOAL_DIST + ERROR_THRESHOLD + 1)

(* A still enemy is reached in the end: the loop does not oscillate for    *)
(* ever with the sensor's delay.                                           *)
EnemyIsReached == []<>(phase = "over")

(* pid_distance.c:114: "si le robot est arrete pendant assez de temps, il  *)
(* peut attaquer l'ennemi", if it has been stopped for long enough.        *)
StandsBeforeStrike == phase = "over" => standing > STABLE_DURATION
=============================================================================
