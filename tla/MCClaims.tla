------------------------------ MODULE MCClaims ------------------------------
(***************************************************************************)
(* Statements that comments of the repository make about the robot and     *)
(* that the code does not keep.  Each is refuted by a run of its own.      *)
(***************************************************************************)
EXTENDS MCRobot

FrontObstacle == {{}, {0}}

(* main.c: TIMEOUR_BEER_STROLL is the "time before the epucks gets         *)
(* thirsty": left to stroll, it does get thirsty.                          *)
GetsThirsty == main_pc = "stroll" ~> main_pc = "beerScan" \/ selector # "TAVERN"

(* scan.c: distance_approach "waits to have covered the required           *)
(* distance": while it waits the wheels do what it told them to.           *)
ApproachCoversItsDistance ==
  scan_pc \in {"approach", "retreat"} => motor.by = "scan"

(* avoid_obstacles.c: AVOIDANCE_DURATION is the "time given to bypass      *)
(* obstacle before forcibly moving on": the first message after it ends    *)
(* the turn.                                                               *)
ForciblyMovesOn ==
  [][AvoidTurning /\ time_avoid > AVOIDANCE_DURATION => avoid_pc' # "turning"]_vars
=============================================================================
