------------------------------ MODULE Platform ------------------------------
(***************************************************************************)
(* What the application threads of the robot share: the passage of time,   *)
(* the two stepper motors and the time-of-flight (TOF) sensor.             *)
(*                                                                         *)
(* Time is counted in ticks.  A thread in chThdSleepMilliseconds keeps the *)
(* number of ticks left in its own x_sleep variable; the action Tick of    *)
(* module Robot counts all of them down, and only when no thread is due.   *)
(* A loop whose period is shorter than a tick (the 100 Hz and 10 Hz polls, *)
(* the loops that never sleep) may run its body at any moment and any      *)
(* number of times, but at least once per tick: its body sets x_sleep to   *)
(* POLL and is not guarded by x_sleep = 0.                                 *)
(*                                                                         *)
(* Distances are counted in the distance the robot covers in a tick at     *)
(* SPEED_APPROACH, so distance_approach(d) sleeps d ticks, or as many as   *)
(* are left of d once the step count has been through an int16_t.          *)
(*                                                                         *)
(* What a thread does between two sleeps is one action.  A thread of       *)
(* NORMALPRIO is not overtaken by its peers before its 20 ms quantum ends, *)
(* but the threads above it (avoid_obstacles, the TOF thread) can cut in:  *)
(* three readings of the sensor in a row may straddle one new measurement, *)
(* and each action of avoid_obstacles falls before or after the whole      *)
(* action of another thread; what it does to the wheels when it falls      *)
(* between two motor calls is the matter of module Motors.                 *)
(***************************************************************************)
EXTENDS Integers

CONSTANTS
  Dist,           (* the distances VL53L0X_get_dist_mm may return      *)
  MIN_SCAN_DIST,  (* an object nearer than this is not looked at       *)
  MAX_SCAN_DIST,  (* an object further than this is not looked at      *)
  INT16_DIST      (* the distance whose step count is 2^15             *)

ASSUME DistAssumption ==
  /\ Dist \subseteq Nat
  /\ MIN_SCAN_DIST \in Nat
  /\ MAX_SCAN_DIST \in Nat
  /\ INT16_DIST \in Nat \ {0}

VARIABLE motor    (* the sign of each wheel's speed, and who set it last *)

Thread == {"main", "walk", "avoid", "scan", "beer", "pid"}

Wheel == {-1, 0, 1}

MotorType == [left : Wheel, right : Wheel, by : Thread]

POLL == 1

(* Ticks left in a sleep of n ticks once one more tick has passed. *)
Remaining(n) == IF n > 0 THEN n - 1 ELSE 0

(* The elapsed time e, known only up to "more than limit". *)
Older(e, limit) == IF e > limit THEN e ELSE e + 1

(* left_motor_set_speed(l) and right_motor_set_speed(r) called by thread t. *)
set_speeds(t, l, r) == motor' = [left |-> l, right |-> r, by |-> t]

(* distance_approach(d), first half: which way the wheels turn ...         *)
approach_move(t, d) ==
  LET s == IF d >= 0 THEN 1 ELSE -1 IN set_speeds(t, s, s)

(* ... and for how long the caller then sleeps before it stops them: the  *)
(* number of steps is an int16_t, which wraps.                             *)
int16(d) == ((d + INT16_DIST) % (2 * INT16_DIST)) - INT16_DIST

(* Seeded fault: the absolute value is forgotten. *)
approach_time_signed(d) == int16(d)

approach_time(d) == IF int16(d) >= 0 THEN int16(d) ELSE -int16(d)
=============================================================================
