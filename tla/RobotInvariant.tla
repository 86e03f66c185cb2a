--------------------------- MODULE RobotInvariant ---------------------------
(***************************************************************************)
(* The inductive invariant behind the safety properties of module Robot.   *)
(* Each part says what main may be doing while a mission's thread is at a  *)
(* given place; the sleeps in it are what orders threads that share no     *)
(* lock and never join each other.                                         *)
(***************************************************************************)
EXTENDS Robot

(* thd_exist is right but for the moment between clearing it and leaving.  *)
FlagsInv ==
  /\ scan_thd_exist <=> scan_pc \notin {"dead", "exit"}
  /\ beer_thd_exist <=> beer_pc \notin {"dead", "exit"}
  /\ pid_thd_exist <=> pid_pc \notin {"dead", "exit"}

(* A thread about to leave does not sleep, so no time passes until it has. *)
LeavingInv ==
  /\ scan_pc \in {"found", "exit"} => scan_sleep = 0
  /\ beer_pc \in {"served", "exit"} => beer_sleep = 0
  /\ pid_pc = "exit" => pid_sleep = 0

(* A scan drives only while main waits for its verdict, and one that has   *)
(* found its object is gone before main's next sleep, or Beer's, is over.  *)
ScanInv ==
  /\ ScanDrives =>
       /\ main_pc \in {"beerScan", "huntScan"}
       /\ ~good_color
       /\ ~scan_must_stop
  /\ scan_pc \in {"found", "exit"} =>
       /\ ~scan_must_stop
       /\ \/ main_pc \in {"beerScan", "huntScan"}
          \/ main_pc = "alert" /\ main_sleep > 0
          \/ /\ main_pc = "beerWait"
             /\ \/ beer_pc \in {"poll", "approach"}
                \/ beer_pc = "drink" /\ beer_sleep > 0

(* A beer is fetched only while main waits for it, and Beer is gone before *)
(* main can be thirsty again.                                              *)
BeerInv ==
  /\ BeerDrives =>
       /\ main_pc = "beerWait"
       /\ ~beer_gotten
       /\ ~beer_must_stop
  /\ beer_pc \in {"served", "exit"} =>
       /\ ~beer_must_stop
       /\ \/ main_pc = "beerWait"
          \/ main_pc = "stroll" /\ ~thirsty
          \/ main_pc = "refresh" /\ main_sleep > 0

(* The animation, which begins after is_done is set, is over before the    *)
(* victory song.                                                           *)
PidInv ==
  /\ PidDrives => ~pid_must_stop
  /\ pid_pc \in {"strike", "recover"} => is_done
  /\ pid_pc = "poll" => main_pc = "pursuit" /\ ~is_done
  /\ pid_pc = "strike" =>
       /\ pid_sleep <= TIME_ANIMATION1
       /\ \/ main_pc = "pursuit"
          \/ main_pc = "victory" /\ pid_sleep + TIME_ANIMATION2 < main_sleep
  /\ pid_pc = "recover" =>
       /\ pid_sleep <= TIME_ANIMATION2
       /\ main_pc = "pursuit" \/ (main_pc = "victory" /\ pid_sleep < main_sleep)
  /\ pid_pc = "exit" =>
       /\ ~pid_must_stop
       /\ main_pc = "pursuit" \/ (main_pc = "victory" /\ main_sleep > 0)

MissionInv == FlagsInv /\ LeavingInv /\ ScanInv /\ BeerInv /\ PidInv

(* The colour a scan is after is not changed under it, and what it saw is  *)
(* kept until main has acted on it.                                        *)
VerdictInv ==
  /\ main_pc = "beerScan" => color_mode = "NOIR"
  /\ main_pc \in {"huntScan", "alert"} => color_mode = "ROUGE"
  /\ main_pc \in {"beerScan", "huntScan"} /\ good_color => color_scanned = color_mode
  /\ VerdictIsForThisScan

(* walk and avoid_obstacles exist once main has booted and not before, so  *)
(* that pausing and resuming them has an effect, and both go together.     *)
PauseInv ==
  /\ main_pc = "boot" =>
       ~tavern_threads_resumed /\ walk_pc = "none" /\ avoid_pc = "none"
  /\ main_pc # "boot" => walk_thd_is_created /\ avoid_thd_is_created
  /\ main_pc \in {"beerScan", "beerWait", "huntScan", "alert", "pursuit", "victory"}
       => ~tavern_threads_resumed
  /\ main_pc # "boot" =>
       /\ tavern_threads_resumed <=> ~walk_is_paused
       /\ tavern_threads_resumed <=> ~avoid_is_paused

(* The inductive invariant.                                                *)
IInv == TypeOK /\ MissionInv /\ VerdictInv /\ PauseInv /\ IdleMeansStill
=============================================================================
