----------------------------- MODULE PidDistance ----------------------------
(***************************************************************************)
(* pid_distance.c: the thread that follows the enemy with a PID regulator  *)
(* and strikes once the regulator has stood still long enough; and the     *)
(* functions that start, stop and question it.  The regulator's output is  *)
(* reduced to the sign of the speed it asks for, a free choice here.       *)
(***************************************************************************)
EXTENDS Platform

CONSTANTS
  STABLE_DURATION,   (* ticks of standing still before the strike *)
  TIME_ANIMATION1,   (* ticks of the sword stroke                 *)
  TIME_ANIMATION2    (* ticks of the way back                     *)

ASSUME PidAssumption ==
  /\ STABLE_DURATION \in Nat
  /\ TIME_ANIMATION1 \in Nat \ {0}
  /\ TIME_ANIMATION2 \in Nat \ {0}

VARIABLES
  is_done,        (* what get_job_is_done returns *)
  pid_must_stop, pid_thd_exist,
  pid_pc,         (* where PidRegulator is *)
  pid_sleep,
  stable_time     (* the static of that name, as the ticks since it was set *)

pidLife == <<is_done, pid_must_stop, pid_thd_exist, pid_pc, pid_sleep>>
pidVars == <<pidLife, stable_time>>

Unset == -1   (* a static systime_t that is still 0 *)

PidTypeOK ==
  /\ is_done \in BOOLEAN
  /\ pid_must_stop \in BOOLEAN
  /\ pid_thd_exist \in BOOLEAN
  /\ pid_pc \in {"dead", "poll", "strike", "recover", "exit"}
  /\ pid_sleep \in Nat
  /\ stable_time \in {Unset} \cup 0..(STABLE_DURATION + 1)

PidInit ==
  /\ is_done = FALSE
  /\ pid_must_stop = FALSE
  /\ pid_thd_exist = FALSE
  /\ pid_pc = "dead"
  /\ pid_sleep = 0
  /\ stable_time = Unset

-----------------------------------------------------------------------------
(* pid_distance.h.                                                         *)

pid_distance_start ==
  IF pid_thd_exist
  THEN UNCHANGED pidLife
  ELSE /\ pid_must_stop' = FALSE
       /\ is_done' = FALSE
       /\ pid_thd_exist' = TRUE
       /\ pid_pc' = "poll"
       /\ pid_sleep' = POLL

stop_pid ==
  /\ pid_must_stop' = TRUE
  /\ UNCHANGED <<is_done, pid_thd_exist, pid_pc, pid_sleep>>

-----------------------------------------------------------------------------
(* The thread.                                                             *)

PidStop ==
  /\ pid_pc = "poll"
  /\ pid_must_stop
  /\ set_speeds("pid", 0, 0)
  /\ pid_must_stop' = FALSE
  /\ pid_thd_exist' = FALSE
  /\ pid_pc' = "exit"
  /\ pid_sleep' = 0
  /\ UNCHANGED <<is_done, stable_time>>

(* The first lines of an iteration set stable_time if nobody has yet.      *)
StableSince == IF stable_time = Unset THEN 0 ELSE stable_time

PidMove ==
  /\ pid_pc = "poll"
  /\ ~pid_must_stop
  /\ \E speed \in Wheel \ {0} : set_speeds("pid", speed, speed)
  /\ stable_time' = 0
  /\ pid_sleep' = POLL
  /\ UNCHANGED <<is_done, pid_must_stop, pid_thd_exist, pid_pc>>

PidStand ==
  /\ pid_pc = "poll"
  /\ ~pid_must_stop
  /\ StableSince <= STABLE_DURATION
  /\ set_speeds("pid", 0, 0)
  /\ stable_time' = StableSince
  /\ pid_sleep' = POLL
  /\ UNCHANGED <<is_done, pid_must_stop, pid_thd_exist, pid_pc>>

(* Seeded fault: thd_exist is cleared before the animation. *)
PidStrikeClearing ==
  /\ pid_pc = "poll"
  /\ ~pid_must_stop
  /\ StableSince > STABLE_DURATION
  /\ is_done' = TRUE
  /\ pid_thd_exist' = FALSE
  /\ set_speeds("pid", -1, 1)
  /\ pid_pc' = "strike"
  /\ pid_sleep' = TIME_ANIMATION1
  /\ UNCHANGED <<pid_must_stop, stable_time>>

(* Seeded fault: the strike is not reported. *)
PidStrikeUntold ==
  /\ pid_pc = "poll"
  /\ ~pid_must_stop
  /\ StableSince > STABLE_DURATION
  /\ set_speeds("pid", -1, 1)
  /\ pid_pc' = "strike"
  /\ pid_sleep' = TIME_ANIMATION1
  /\ UNCHANGED <<is_done, pid_must_stop, pid_thd_exist, stable_time>>

PidStrike ==
  /\ pid_pc = "poll"
  /\ ~pid_must_stop
  /\ StableSince > STABLE_DURATION
  /\ is_done' = TRUE
  /\ set_speeds("pid", -1, 1)
  /\ pid_pc' = "strike"
  /\ pid_sleep' = TIME_ANIMATION1
  /\ UNCHANGED <<pid_must_stop, pid_thd_exist, stable_time>>

PidRecover ==
  /\ pid_pc = "strike"
  /\ pid_sleep = 0
  /\ set_speeds("pid", 1, -1)
  /\ pid_pc' = "recover"
  /\ pid_sleep' = TIME_ANIMATION2
  /\ UNCHANGED <<is_done, pid_must_stop, pid_thd_exist, stable_time>>

PidClear ==
  /\ pid_pc = "recover"
  /\ pid_sleep = 0
  /\ set_speeds("pid", 0, 0)
  /\ pid_thd_exist' = FALSE
  /\ pid_pc' = "exit"
  /\ UNCHANGED <<is_done, pid_must_stop, pid_sleep, stable_time>>

PidExit ==
  /\ pid_pc = "exit"
  /\ pid_pc' = "dead"
  /\ UNCHANGED <<is_done, pid_must_stop, pid_thd_exist, pid_sleep, stable_time, motor>>

PidThread ==
  \/ PidStop \/ PidMove \/ PidStand \/ PidStrike
  \/ PidRecover \/ PidClear \/ PidExit

PidWaits == pid_pc = "dead" \/ pid_sleep > 0

PidElapse ==
  /\ pid_sleep' = Remaining(pid_sleep)
  /\ stable_time' = IF stable_time = Unset THEN Unset
                    ELSE Older(stable_time, STABLE_DURATION)
  /\ UNCHANGED <<is_done, pid_must_stop, pid_thd_exist, pid_pc>>

(* The thread may be driving the robot. *)
PidDrives == pid_pc \in {"poll", "strike", "recover"}
=============================================================================
