------------------------------- MODULE Coils --------------------------------
(***************************************************************************)
(* motors.c from below: what the callbacks of the timers make of one       *)
(* stepper_motor_s, the left or the right one (the two share nothing).     *)
(* The direction and the power save, which module Motors sets in several   *)
(* steps, may change between any two callbacks.                            *)
(***************************************************************************)
EXTENDS Integers

CONSTANTS
  CounterValue,   (* the arguments of set_pos                              *)
  COUNT        (* bound of the model: no step takes count further than  *)
               (* this from 0; in the code it is an int32_t             *)

ASSUME CoilsAssumption == CounterValue \subseteq Int /\ COUNT \in Nat

VARIABLES
  side,         (* which of the two motors this is, for good             *)
  direction,    (* as motor_set_speed last set it                        *)
  power_save,   (* the notification of channel 1 is enabled              *)
  step_index, count,
  pins,         (* the inputs of the motor's bridge that are high        *)
  zero,         (* history: where count was, or would be, at step 0      *)
  field         (* history: the last inputs that were not all low        *)

coilsVars == <<side, direction, power_save, step_index, count, pins, zero, field>>

Inputs == {"IN1", "IN2", "IN3", "IN4"}

step_halt == {}

(* Seeded fault: two lines of the table are swapped. *)
step_table_swapped ==
  [i \in 0 .. 7 |->
    CASE i = 0 -> {"IN1", "IN3"} [] i = 1 -> {"IN3"}
      [] i = 2 -> {"IN2"}        [] i = 3 -> {"IN2", "IN3"}
      [] i = 4 -> {"IN2", "IN4"} [] i = 5 -> {"IN4"}
      [] i = 6 -> {"IN1", "IN4"} [] i = 7 -> {"IN1"}]

step_table ==
  [i \in 0 .. 7 |->
    CASE i = 0 -> {"IN1", "IN3"} [] i = 1 -> {"IN3"}
      [] i = 2 -> {"IN2", "IN3"} [] i = 3 -> {"IN2"}
      [] i = 4 -> {"IN2", "IN4"} [] i = 5 -> {"IN4"}
      [] i = 6 -> {"IN1", "IN4"} [] i = 7 -> {"IN1"}]

(* left_motor_update, right_motor_update.                                  *)
update(out) ==
  /\ pins' = out
  /\ field' = IF out = {} THEN field ELSE out

(* One microstep on the way the wheel turns.                               *)
Way == IF direction = "FORWARD" THEN 1 ELSE -1

(* The coils of the two motors, mounted face to face, go opposite ways.    *)
Mounting == IF side = "left" THEN 1 ELSE -1

(* Seeded fault: the index of the right motor is not inverted. *)
next_index_alike == (step_index + Way) % 8

next_index == (step_index + Way * Mounting) % 8

step ==
  /\ direction # "HALT"
  /\ count + Way \in -COUNT .. COUNT
  /\ step_index' = next_index
  /\ count' = count + Way
  /\ update(step_table[next_index])

halt ==
  /\ direction = "HALT"
  /\ update(step_halt)
  /\ UNCHANGED <<step_index, count>>

(* left_motor_timer_callback, right_motor_timer_callback.                  *)
motor_timer_callback ==
  /\ step \/ halt
  /\ UNCHANGED <<side, direction, power_save, zero>>

(* left_motor_pwm_ch1_cb, right_motor_pwm_ch1_cb.                          *)
motor_pwm_ch1_cb ==
  /\ power_save
  /\ update(step_halt)
  /\ UNCHANGED <<side, direction, power_save, step_index, count, zero>>

(* A thread is in motor_set_speed.                                         *)
direction_changes ==
  /\ direction' \in {"HALT", "FORWARD", "BACKWARD"}
  /\ UNCHANGED <<side, power_save, step_index, count, pins, zero, field>>

power_save_changes ==
  /\ power_save' \in BOOLEAN
  /\ UNCHANGED <<side, direction, step_index, count, pins, zero, field>>

(* left_motor_set_pos, right_motor_set_pos.                                *)
motor_set_pos(counter_value) ==
  /\ count' = counter_value * 2
  /\ zero' = counter_value * 2 - Mounting * step_index
  /\ UNCHANGED <<side, direction, power_save, step_index, pins, field>>

(* motors_init. *)
CoilsInit ==
  /\ side \in {"left", "right"}
  /\ direction = "HALT" /\ power_save = FALSE
  /\ step_index = 0 /\ count = 0
  /\ pins = step_halt
  /\ zero = 0 /\ field = {}

CoilsNext ==
  \/ motor_timer_callback \/ motor_pwm_ch1_cb
  \/ direction_changes \/ power_save_changes
  \/ \E counter_value \in CounterValue : motor_set_pos(counter_value)

CoilsSpec == CoilsInit /\ [][CoilsNext]_coilsVars

(***************************************************************************)
(* Properties.                                                             *)
(***************************************************************************)
(* The variables have the types of the code. *)
CoilsTypeOK ==
  /\ side \in {"left", "right"}
  /\ direction \in {"HALT", "FORWARD", "BACKWARD"}
  /\ power_save \in BOOLEAN
  /\ step_index \in 0 .. 7
  /\ count \in Int /\ zero \in Int
  /\ pins \subseteq Inputs /\ field \subseteq Inputs

(* The position that the code counts and the step at which the coils are   *)
(* never part: whatever the directions, the stops, the power cuts and the  *)
(* calls of set_pos in between, a wheel whose count has come back to a     *)
(* value is at the same eighth of its step as then.                        *)
CountFollowsCoils == step_index = (Mounting * (count - zero)) % 8

(* The field between the coils, as the inputs make it.                     *)
Along(inputs, plus, minus) ==
  (IF plus \in inputs THEN 1 ELSE 0) - (IF minus \in inputs THEN 1 ELSE 0)
FieldX(inputs) == Along(inputs, "IN1", "IN2")
FieldY(inputs) == Along(inputs, "IN3", "IN4")

Turned(old, new) ==
  LET dx == FieldX(new) - FieldX(old)
      dy == FieldY(new) - FieldY(old)
  IN  dx * dx + dy * dy

(* The rotor can follow: from one field to the next that is not off, even  *)
(* if the power was cut or the wheel halted in between, the field turns by *)
(* an eighth of a turn at most, and powered coils always make a field.     *)
RotorFollows ==
  [][pins' # {} => /\ field # {} => Turned(field, pins') <= 1
                   /\ Turned({}, pins') > 0]_coilsVars

=============================================================================
