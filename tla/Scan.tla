-------------------------------- MODULE Scan --------------------------------
(***************************************************************************)
(* scan.c: the thread that turns on the spot until an object is in range,  *)
(* drives up to it, lets the camera look at it and either reports the      *)
(* colour asked for or drives back and turns on; and the functions that    *)
(* start, stop and question it.  What the camera threads (process_image.c) *)
(* compute is a free choice here; their pause flag is kept.                *)
(***************************************************************************)
EXTENDS Platform

CONSTANTS
  SCAN_DIST,      (* where the robot stops in front of an object *)
  TIME_TO_SCAN    (* ticks the camera is given                   *)

ASSUME ScanAssumption ==
  /\ SCAN_DIST \in Nat
  /\ TIME_TO_SCAN \in Nat \ {0}

VARIABLES
  color_mode,       (* the colour asked for                               *)
  good_color,       (* the colour asked for has been found                *)
  scan_must_stop, scan_thd_exist,
  scan_pc,          (* where Scan is; "dead" before it is created and once *)
                    (* chThdExit has run                                  *)
  scan_sleep,
  dist_approach,    (* the thread's locals, kept when it ends             *)
  color_scanned,
  image_is_paused,  (* process_image.c's flags                            *)
  image_thd_is_created

scanLife   == <<good_color, scan_must_stop, scan_thd_exist, scan_pc, scan_sleep>>
scanLocals == <<dist_approach, color_scanned>>
imageFlags == <<image_is_paused, image_thd_is_created>>
scanVars   == <<color_mode, scanLife, scanLocals, imageFlags>>

Color == {"AUTRE", "ROUGE", "BLEU", "NOIR"}

ScanTypeOK ==
  /\ color_mode \in Color
  /\ good_color \in BOOLEAN
  /\ scan_must_stop \in BOOLEAN
  /\ scan_thd_exist \in BOOLEAN
  /\ scan_pc \in {"dead", "poll", "approach", "look", "retreat", "turnaway",
                  "found", "exit"}
  /\ scan_sleep \in Nat
  /\ dist_approach \in Int
  /\ color_scanned \in Color
  /\ image_is_paused \in BOOLEAN
  /\ image_thd_is_created \in BOOLEAN

ScanInit ==
  /\ color_mode = "AUTRE"
  /\ good_color = FALSE
  /\ scan_must_stop = FALSE
  /\ scan_thd_exist = FALSE
  /\ scan_pc = "dead"
  /\ scan_sleep = 0
  /\ dist_approach = 0
  /\ color_scanned = "AUTRE"
  /\ image_is_paused = FALSE
  /\ image_thd_is_created = FALSE

-----------------------------------------------------------------------------
(* process_image.h: the camera threads start once; they can be paused and  *)
(* resumed.                                                                *)

ProcessImage_start_and_pause ==
  /\ image_thd_is_created' = TRUE
  /\ image_is_paused' = TRUE

ProcessImage_pause_thd ==
  /\ image_is_paused' = (image_is_paused \/ image_thd_is_created)
  /\ UNCHANGED image_thd_is_created

ProcessImage_resume_thd ==
  /\ image_is_paused' = (image_is_paused /\ ~image_thd_is_created)
  /\ UNCHANGED image_thd_is_created

-----------------------------------------------------------------------------
(* scan.h.                                                                 *)

set_color_mode(color_set) == color_mode' = color_set

(* Seeded fault: the verdict of the last scan is kept. *)
scan_start_keeping_verdict ==
  IF scan_thd_exist
  THEN UNCHANGED scanLife
  ELSE /\ scan_thd_exist' = TRUE
       /\ UNCHANGED good_color
       /\ scan_must_stop' = FALSE
       /\ scan_pc' = "poll"
       /\ scan_sleep' = POLL

scan_start ==
  IF scan_thd_exist
  THEN UNCHANGED scanLife
  ELSE /\ scan_thd_exist' = TRUE
       /\ good_color' = FALSE
       /\ scan_must_stop' = FALSE
       /\ scan_pc' = "poll"
       /\ scan_sleep' = POLL

stop_scan ==
  /\ scan_must_stop' = TRUE
  /\ UNCHANGED <<good_color, scan_thd_exist, scan_pc, scan_sleep>>

-----------------------------------------------------------------------------
(* The thread.                                                             *)

(* Three readings in a row: a new measurement may come after any of them.  *)
Readings3 == {<<a, a, b>> : a, b \in Dist} \cup {<<a, b, b>> : a, b \in Dist}

InRange(r) == r[1] < MAX_SCAN_DIST /\ r[2] > MIN_SCAN_DIST

(* Black hides both colours from the camera, red hides only blue.          *)
color_scan(red, blue) ==
  IF blue THEN IF red THEN "NOIR" ELSE "ROUGE" ELSE "AUTRE"

Wanted(color) == color_mode \in {"ROUGE", "NOIR"} /\ color = color_mode

(* Seeded fault: the thread leaves with the motors running. *)
ScanStopRolling ==
  /\ scan_pc = "poll"
  /\ scan_must_stop
  /\ scan_must_stop' = FALSE
  /\ scan_thd_exist' = FALSE
  /\ scan_pc' = "exit"
  /\ scan_sleep' = 0
  /\ UNCHANGED <<color_mode, good_color, scanLocals, imageFlags, motor>>

ScanStop ==
  /\ scan_pc = "poll"
  /\ scan_must_stop
  /\ set_speeds("scan", 0, 0)
  /\ scan_must_stop' = FALSE
  /\ scan_thd_exist' = FALSE
  /\ scan_pc' = "exit"
  /\ scan_sleep' = 0
  /\ UNCHANGED <<color_mode, good_color, scanLocals, imageFlags>>

ScanTurn ==
  /\ scan_pc = "poll"
  /\ ~scan_must_stop
  /\ \E r \in Readings3 : ~InRange(r)
  /\ set_speeds("scan", 1, -1)
  /\ scan_sleep' = POLL
  /\ dist_approach' = 0
  /\ color_scanned' = "AUTRE"
  /\ UNCHANGED <<color_mode, good_color, scan_must_stop, scan_thd_exist, scan_pc,
                 imageFlags>>

ScanApproach ==
  /\ scan_pc = "poll"
  /\ ~scan_must_stop
  /\ \E r \in Readings3 : InRange(r) /\ dist_approach' = r[3] - SCAN_DIST
  /\ approach_move("scan", dist_approach')
  /\ scan_pc' = "approach"
  /\ scan_sleep' = approach_time(dist_approach')
  /\ color_scanned' = "AUTRE"
  /\ UNCHANGED <<color_mode, good_color, scan_must_stop, scan_thd_exist, imageFlags>>

ScanLook ==
  /\ scan_pc = "approach"
  /\ scan_sleep = 0
  /\ set_speeds("scan", 0, 0)
  /\ ProcessImage_resume_thd
  /\ scan_pc' = "look"
  /\ scan_sleep' = TIME_TO_SCAN
  /\ UNCHANGED <<color_mode, good_color, scan_must_stop, scan_thd_exist, scanLocals>>

ScanJudge ==
  /\ scan_pc = "look"
  /\ scan_sleep = 0
  /\ \E red, blue \in BOOLEAN : color_scanned' = color_scan(red, blue)
  /\ ProcessImage_pause_thd
  /\ UNCHANGED <<color_mode, dist_approach>>

(* Seeded fault: the match is not reported. *)
ScanMatchUntold ==
  /\ ScanJudge
  /\ Wanted(color_scanned')
  /\ scan_pc' = "found"
  /\ scan_sleep' = 0
  /\ UNCHANGED <<good_color, scan_must_stop, scan_thd_exist, motor>>

ScanMatch ==
  /\ ScanJudge
  /\ Wanted(color_scanned')
  /\ good_color' = TRUE
  /\ scan_pc' = "found"
  /\ scan_sleep' = 0
  /\ UNCHANGED <<scan_must_stop, scan_thd_exist, motor>>

(* Seeded fault: a mismatch is reported as a match. *)
ScanMismatchReported ==
  /\ ScanJudge
  /\ ~Wanted(color_scanned')
  /\ good_color' = TRUE
  /\ approach_move("scan", -dist_approach)
  /\ scan_pc' = "retreat"
  /\ scan_sleep' = approach_time(-dist_approach)
  /\ UNCHANGED <<scan_must_stop, scan_thd_exist>>

ScanMismatch ==
  /\ ScanJudge
  /\ ~Wanted(color_scanned')
  /\ good_color' = FALSE
  /\ approach_move("scan", -dist_approach)
  /\ scan_pc' = "retreat"
  /\ scan_sleep' = approach_time(-dist_approach)
  /\ UNCHANGED <<scan_must_stop, scan_thd_exist>>

ScanRetreated ==
  /\ scan_pc = "retreat"
  /\ scan_sleep = 0
  /\ set_speeds("scan", 1, -1)
  /\ scan_pc' = "turnaway"
  /\ scan_sleep' = POLL
  /\ UNCHANGED <<color_mode, good_color, scan_must_stop, scan_thd_exist, scanLocals,
                 imageFlags>>

(* The loop that waits, without sleeping, for the object to leave the      *)
(* sensor's beam; the period of the outer loop is over by then.            *)
ScanTurnAway ==
  /\ scan_pc = "turnaway"
  /\ \E d \in Dist : scan_pc' = IF d < MAX_SCAN_DIST THEN "turnaway" ELSE "poll"
  /\ scan_sleep' = POLL
  /\ UNCHANGED <<color_mode, good_color, scan_must_stop, scan_thd_exist, scanLocals,
                 imageFlags, motor>>

(* Seeded fault: thd_exist is not cleared after a match. *)
ScanClearForgotten ==
  /\ scan_pc = "found"
  /\ scan_pc' = "exit"
  /\ UNCHANGED <<color_mode, good_color, scan_must_stop, scan_thd_exist, scan_sleep,
                 scanLocals, imageFlags, motor>>

(* The last two statements of a thread that found its object.  Nothing     *)
(* here relies on their being run in one go.                               *)
ScanClear ==
  /\ scan_pc = "found"
  /\ scan_thd_exist' = FALSE
  /\ scan_pc' = "exit"
  /\ UNCHANGED <<color_mode, good_color, scan_must_stop, scan_sleep, scanLocals,
                 imageFlags, motor>>

ScanExit ==
  /\ scan_pc = "exit"
  /\ scan_pc' = "dead"
  /\ UNCHANGED <<color_mode, good_color, scan_must_stop, scan_thd_exist, scan_sleep,
                 scanLocals, imageFlags, motor>>

ScanThread ==
  \/ ScanStop \/ ScanTurn \/ ScanApproach \/ ScanLook
  \/ ScanMatch \/ ScanMismatch \/ ScanRetreated \/ ScanTurnAway
  \/ ScanClear \/ ScanExit

ScanWaits == scan_pc = "dead" \/ scan_sleep > 0

ScanElapse ==
  /\ scan_sleep' = Remaining(scan_sleep)
  /\ UNCHANGED <<color_mode, good_color, scan_must_stop, scan_thd_exist, scan_pc,
                 scanLocals, imageFlags>>

(* The thread may be driving the robot. *)
ScanDrives == scan_pc \notin {"dead", "found", "exit"}
=============================================================================
