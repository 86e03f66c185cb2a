-------------------------------- MODULE Walk --------------------------------
(***************************************************************************)
(* walk.c: the thread that draws "butterflies" of three turn-and-advance   *)
(* strokes, and the two functions that pause and resume it.  is_paused is  *)
(* read only between two butterflies.                                      *)
(***************************************************************************)
EXTENDS Platform

CONSTANTS
  TIME_TURN_BUTTERFLY,     (* ticks of one turn      *)
  TIME_SEGMENT_BUTTERFLY,  (* ticks of one advance   *)
  BUTTERFLY_WAIT_TIME      (* ticks of rest after the three strokes *)

ASSUME WalkAssumption ==
  /\ TIME_TURN_BUTTERFLY \in Nat \ {0}
  /\ TIME_SEGMENT_BUTTERFLY \in Nat \ {0}
  /\ BUTTERFLY_WAIT_TIME \in Nat \ {0}

VARIABLES
  walk_is_paused, walk_thd_is_created,
  walk_pc,      (* where thd_walk is: none, poll, turn, segment, rest *)
  walk_i,       (* strokes already finished in this butterfly         *)
  walk_sleep

walkFlags == <<walk_is_paused, walk_thd_is_created>>
walkThread == <<walk_pc, walk_i, walk_sleep>>
walkVars == <<walkFlags, walkThread>>

WalkTypeOK ==
  /\ walk_is_paused \in BOOLEAN
  /\ walk_thd_is_created \in BOOLEAN
  /\ walk_pc \in {"none", "poll", "turn", "segment", "rest"}
  /\ walk_i \in 0..2
  /\ walk_sleep \in Nat

WalkInit ==
  /\ walk_is_paused = FALSE
  /\ walk_thd_is_created = FALSE
  /\ walk_pc = "none"
  /\ walk_i = 0
  /\ walk_sleep = 0

-----------------------------------------------------------------------------
(* The functions walk.h offers.  They touch only the flags, except for     *)
(* walk_start_thd, which creates the thread; it is called once, at boot,   *)
(* with walk_pause_thd after it before the thread can run.                 *)

walk_start_and_pause ==
  /\ walk_thd_is_created' = TRUE
  /\ walk_is_paused' = TRUE
  /\ walk_pc' = "poll"
  /\ walk_sleep' = POLL
  /\ UNCHANGED walk_i

walk_pause_thd == walk_is_paused' = (walk_is_paused \/ walk_thd_is_created)

walk_resume_thd == walk_is_paused' = (walk_is_paused /\ ~walk_thd_is_created)

-----------------------------------------------------------------------------
(* The thread.  Each action is what it does between two sleeps.            *)

WalkIdle ==
  /\ walk_pc = "poll"
  /\ walk_is_paused
  /\ walk_sleep' = POLL
  /\ UNCHANGED <<walkFlags, walk_pc, walk_i, motor>>

StartTurn ==
  /\ set_speeds("walk", 1, -1)
  /\ walk_pc' = "turn"
  /\ walk_sleep' = TIME_TURN_BUTTERFLY

(* Seeded fault: the pause is not looked at. *)
WalkBeginUnasked ==
  /\ walk_pc = "poll"
  /\ walk_i' = 0
  /\ StartTurn
  /\ UNCHANGED walkFlags

WalkBegin ==
  /\ walk_pc = "poll"
  /\ ~walk_is_paused
  /\ walk_i' = 0
  /\ StartTurn
  /\ UNCHANGED walkFlags

WalkAdvance ==
  /\ walk_pc = "turn"
  /\ walk_sleep = 0
  /\ set_speeds("walk", 1, 1)
  /\ walk_pc' = "segment"
  /\ walk_sleep' = TIME_SEGMENT_BUTTERFLY
  /\ UNCHANGED <<walkFlags, walk_i>>

(* A finished stroke stops the motors and turns for the next one at once. *)
WalkNextStroke ==
  /\ walk_pc = "segment"
  /\ walk_sleep = 0
  /\ walk_i < 2
  /\ walk_i' = walk_i + 1
  /\ StartTurn
  /\ UNCHANGED walkFlags

WalkLastStroke ==
  /\ walk_pc = "segment"
  /\ walk_sleep = 0
  /\ walk_i = 2
  /\ set_speeds("walk", 0, 0)
  /\ walk_pc' = "rest"
  /\ walk_sleep' = BUTTERFLY_WAIT_TIME
  /\ UNCHANGED <<walkFlags, walk_i>>

(* The butterfly took longer than the 10 ms period, so the windowed sleep  *)
(* at the end of the loop returns at once.                                 *)
WalkRested ==
  /\ walk_pc = "rest"
  /\ walk_sleep = 0
  /\ walk_pc' = "poll"
  /\ walk_sleep' = POLL
  /\ UNCHANGED <<walkFlags, walk_i, motor>>

thd_walk ==
  \/ WalkIdle \/ WalkBegin \/ WalkAdvance
  \/ WalkNextStroke \/ WalkLastStroke \/ WalkRested

(* No action of the thread has to happen before time may pass. *)
WalkWaits == walk_pc = "none" \/ walk_sleep > 0

WalkElapse ==
  /\ walk_sleep' = Remaining(walk_sleep)
  /\ UNCHANGED <<walkFlags, walk_pc, walk_i>>
=============================================================================
