----------------------------- MODULE OpenMissions ---------------------------
(***************************************************************************)
(* Each of the three missions under callers that keep to no protocol: the  *)
(* functions of scan.h, of beer.h or of pid_distance.h called in any order *)
(* at any time, the stop function too.  main.c never stops a living        *)
(* mission (StopsFindNobody in module Robot), so this is where the         *)
(* branches on must_stop are exercised.  One mission is called in a        *)
(* behaviour: main.c has no two of them driving (MissionExclusive).        *)
(***************************************************************************)
EXTENDS Scan, Beer, PidDistance

VARIABLE mission   (* the one that is called *)

missionVars == <<scanVars, beerVars, pidVars>>
openVars == <<mission, motor, missionVars>>

(* The program has booted: the camera threads exist and are paused.        *)
OpenInit ==
  /\ mission \in {"scan", "beer", "pid"}
  /\ motor = [left |-> 0, right |-> 0, by |-> "main"]
  /\ color_mode = "AUTRE"
  /\ good_color = FALSE
  /\ scan_must_stop = FALSE
  /\ scan_thd_exist = FALSE
  /\ scan_pc = "dead"
  /\ scan_sleep = 0
  /\ dist_approach = 0
  /\ color_scanned = "AUTRE"
  /\ image_is_paused = TRUE
  /\ image_thd_is_created = TRUE
  /\ BeerInit
  /\ PidInit

-----------------------------------------------------------------------------
(* The callers.  A thread's last statements, from the flag it clears to    *)
(* chThdExit, are run in one go among threads of its priority, so no start *)
(* falls between them.                                                     *)

SetColor ==
  /\ mission = "scan"
  /\ \E c \in {"ROUGE", "NOIR"} : set_color_mode(c)
  /\ UNCHANGED <<mission, motor, scanLife, scanLocals, imageFlags, beerVars, pidVars>>

StartScan ==
  /\ mission = "scan"
  /\ scan_pc # "exit"
  /\ scan_start
  /\ UNCHANGED <<mission, motor, color_mode, scanLocals, imageFlags, beerVars, pidVars>>

StopScan ==
  /\ mission = "scan"
  /\ stop_scan
  /\ UNCHANGED <<mission, motor, color_mode, scanLocals, imageFlags, beerVars, pidVars>>

StartBeer ==
  /\ mission = "beer"
  /\ beer_pc # "exit"
  /\ beer_start
  /\ UNCHANGED <<mission, motor, beer_dist, scanVars, pidVars>>

StopBeer ==
  /\ mission = "beer"
  /\ stop_beer
  /\ UNCHANGED <<mission, motor, beer_dist, scanVars, pidVars>>

StartPid ==
  /\ mission = "pid"
  /\ pid_pc # "exit"
  /\ pid_distance_start
  /\ UNCHANGED <<mission, motor, stable_time, scanVars, beerVars>>

StopPid ==
  /\ mission = "pid"
  /\ stop_pid
  /\ UNCHANGED <<mission, motor, stable_time, scanVars, beerVars>>

Callers == SetColor \/ StartScan \/ StopScan \/ StartBeer \/ StopBeer
           \/ StartPid \/ StopPid

OpenScanStep == ScanThread /\ UNCHANGED <<mission, beerVars, pidVars>>
OpenBeerStep == BeerThread /\ UNCHANGED <<mission, scanVars, pidVars>>
OpenPidStep  == PidThread /\ UNCHANGED <<mission, scanVars, beerVars>>

OpenTick ==
  /\ ScanWaits /\ BeerWaits /\ PidWaits
  /\ ScanElapse /\ BeerElapse /\ PidElapse
  /\ UNCHANGED <<mission, motor>>

OpenNext == Callers \/ OpenScanStep \/ OpenBeerStep \/ OpenPidStep \/ OpenTick

(* Strong fairness of time: a caller does not start and stop a mission     *)
(* without end in one tick.                                                *)
OpenFairness ==
  /\ WF_openVars(OpenScanStep) /\ WF_openVars(OpenBeerStep)
  /\ WF_openVars(OpenPidStep) /\ SF_openVars(OpenTick)

OpenSpec == OpenInit /\ [][OpenNext]_openVars /\ OpenFairness

-----------------------------------------------------------------------------

MissionsOver ==
  /\ scan_pc \notin {"poll", "approach", "retreat", "turnaway"}
  /\ beer_pc \notin {"approach", "retreat"}
  /\ ~PidDrives

(* No way out of a mission leaves anything on (on must_stop, on a match,   *)
(* after the beer, after the animation): when it no longer drives the      *)
(* wheels stand still, and the camera works only while a scan looks.       *)
NothingIsLeftOn ==
  /\ MissionsOver => motor.left = 0 /\ motor.right = 0
  /\ image_is_paused <=> scan_pc # "look"

(* A stop request is not lost, however it falls between the sleeps of the  *)
(* thread and whatever is called besides: the scan ends, unless it turns   *)
(* before an object that does not leave the sensor's beam; a beer and a    *)
(* pursuit always end.                                                     *)
StopIsNotLost ==
  /\ scan_must_stop /\ ScanDrives ~> ~ScanDrives \/ scan_pc = "turnaway"
  /\ beer_must_stop /\ BeerDrives ~> ~BeerDrives
  /\ pid_must_stop /\ PidDrives ~> ~PidDrives
=============================================================================
