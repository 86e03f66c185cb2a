------------------------- MODULE OpenMissionsProofs -------------------------
(***************************************************************************)
(* Whoever calls the missions, whenever and in whatever order: none leaves *)
(* a wheel turning or the camera on.  For all distances, durations and     *)
(* readings of the sensor.                                                 *)
(***************************************************************************)
EXTENDS OpenMissions, TLAPS

Stopped == motor.left = 0 /\ motor.right = 0

(* The wheels turn for the mission that is called only, whose thread is    *)
(* then known to exist, so no second one is started under it; the camera   *)
(* works while a scan looks, which needs its threads to exist.             *)
OpenInv ==
  /\ mission = "scan" \/ scan_pc = "dead"
  /\ mission = "beer" \/ beer_pc = "dead"
  /\ mission = "pid" \/ pid_pc = "dead"
  /\ mission \in {"scan", "beer", "pid"}
  /\ scan_pc \in {"dead", "exit"} \/ scan_thd_exist
  /\ beer_pc \in {"dead", "exit"} \/ beer_thd_exist
  /\ pid_pc \in {"dead", "exit"} \/ pid_thd_exist
  /\ image_thd_is_created
  /\ image_is_paused <=> scan_pc # "look"
  /\ MissionsOver => Stopped

USE DEF OpenInv, MissionsOver, Stopped, PidDrives

(* At the start nothing is on.                                             *)
LEMMA OpenBegins == OpenInit => OpenInv
BY DEF OpenInit, BeerInit, PidInit

(* set_speeds with two zeros stops the wheels.                             *)
LEMMA SetToZero ==
  ASSUME NEW t, set_speeds(t, 0, 0)
  PROVE  Stopped'
BY DEF set_speeds

(* A call of scan.h, beer.h or pid_distance.h turns nothing on.            *)
LEMMA CallsKeep ==
  ASSUME OpenInv, Callers
  PROVE  OpenInv'
<1>1. CASE SetColor
  BY <1>1, Zenon DEF SetColor, scanLife, scanLocals, imageFlags, beerVars, beerLife, pidVars, pidLife
<1>2. CASE StartScan
  BY <1>2 DEF StartScan, scan_start, scanLife, scanLocals, imageFlags, beerVars,
     beerLife, pidVars, pidLife
<1>3. CASE StopScan
  BY <1>3 DEF StopScan, stop_scan, scanLocals, imageFlags, beerVars, beerLife, pidVars,
     pidLife
<1>4. CASE StartBeer
  BY <1>4 DEF StartBeer, beer_start, beerLife, scanVars, scanLife, imageFlags, pidVars,
     pidLife
<1>5. CASE StopBeer
  BY <1>5 DEF StopBeer, stop_beer, scanVars, scanLife, imageFlags, pidVars, pidLife
<1>6. CASE StartPid
  BY <1>6 DEF StartPid, pid_distance_start, pidLife, scanVars, scanLife, imageFlags,
     beerVars, beerLife
<1>7. CASE StopPid
  BY <1>7 DEF StopPid, stop_pid, scanVars, scanLife, imageFlags, beerVars, beerLife
<1> QED
  BY <1>1, <1>2, <1>3, <1>4, <1>5, <1>6, <1>7 DEF Callers

(* The thread of scan.c stops the wheels or the camera where it leaves     *)
(* them.                                                                   *)
LEMMA ScanKeeps ==
  ASSUME OpenInv, OpenScanStep
  PROVE  OpenInv'
<1>0. /\ ScanThread /\ UNCHANGED <<mission, beer_pc, beer_thd_exist, pid_pc, pid_thd_exist>>
  BY DEF OpenScanStep, beerVars, beerLife, pidVars, pidLife
<1> USE <1>0, SetToZero DEF imageFlags
<1>1. CASE ScanStop      BY <1>1 DEF ScanStop
<1>2. CASE ScanTurn      BY <1>2 DEF ScanTurn
<1>3. CASE ScanApproach  BY <1>3 DEF ScanApproach
<1>4. CASE ScanLook      BY <1>4 DEF ScanLook, ProcessImage_resume_thd
<1>5. CASE ScanMatch     BY <1>5 DEF ScanMatch, ScanJudge, ProcessImage_pause_thd
<1>6. CASE ScanMismatch  BY <1>6 DEF ScanMismatch, ScanJudge, ProcessImage_pause_thd
<1>7. CASE ScanRetreated BY <1>7 DEF ScanRetreated
<1>8. CASE ScanTurnAway  BY <1>8 DEF ScanTurnAway
<1>9. CASE ScanClear     BY <1>9 DEF ScanClear
<1>10. CASE ScanExit     BY <1>10 DEF ScanExit
<1> QED
  BY <1>1, <1>2, <1>3, <1>4, <1>5, <1>6, <1>7, <1>8, <1>9, <1>10 DEF ScanThread

(* The thread of beer.c stops them at the bar and back from it, and turns  *)
(* them only where it then does.                                           *)
LEMMA BeerKeeps ==
  ASSUME OpenInv, OpenBeerStep
  PROVE  OpenInv'
<1>0. /\ BeerThread
      /\ UNCHANGED <<mission, scan_pc, scan_thd_exist, image_is_paused,
                     image_thd_is_created, pid_pc, pid_thd_exist>>
  BY DEF OpenBeerStep, scanVars, scanLife, imageFlags, pidVars, pidLife
<1> USE <1>0, SetToZero
<1>1. CASE BeerStop      BY <1>1 DEF BeerStop
<1>2. CASE BeerLook      BY <1>2 DEF BeerLook
<1>3. CASE BeerApproach  BY <1>3 DEF BeerApproach
<1>4. CASE BeerOrder     BY <1>4 DEF BeerOrder
<1>5. CASE BeerRetreat   BY <1>5 DEF BeerRetreat
<1>6. CASE BeerServed    BY <1>6 DEF BeerServed
<1>7. CASE BeerClear     BY <1>7 DEF BeerClear
<1>8. CASE BeerExit      BY <1>8 DEF BeerExit
<1> QED
  BY <1>1, <1>2, <1>3, <1>4, <1>5, <1>6, <1>7, <1>8 DEF BeerThread

(* The thread of pid_distance.c stops them where it ends.                  *)
LEMMA PidKeeps ==
  ASSUME OpenInv, OpenPidStep
  PROVE  OpenInv'
<1>0. /\ PidThread
      /\ UNCHANGED <<mission, scan_pc, scan_thd_exist, image_is_paused,
                     image_thd_is_created, beer_pc, beer_thd_exist>>
  BY DEF OpenPidStep, scanVars, scanLife, imageFlags, beerVars, beerLife
<1> USE <1>0, SetToZero
<1>1. CASE PidStop     BY <1>1 DEF PidStop
<1>2. CASE PidMove     BY <1>2 DEF PidMove
<1>3. CASE PidStand    BY <1>3 DEF PidStand
<1>4. CASE PidStrike   BY <1>4 DEF PidStrike
<1>5. CASE PidRecover  BY <1>5 DEF PidRecover
<1>6. CASE PidClear    BY <1>6 DEF PidClear
<1>7. CASE PidExit     BY <1>7 DEF PidExit
<1> QED
  BY <1>1, <1>2, <1>3, <1>4, <1>5, <1>6, <1>7 DEF PidThread

(* No way out of a mission leaves anything on, whatever calls of its start *)
(* and its stop fall between its sleeps.                                   *)
THEOREM NothingLeftOn == OpenSpec => []NothingIsLeftOn
<1>1. OpenInv /\ [OpenNext]_openVars => OpenInv'
  <2> SUFFICES ASSUME OpenInv, [OpenNext]_openVars PROVE OpenInv'
    OBVIOUS
  <2>1. CASE OpenTick
    BY <2>1 DEF OpenTick, ScanElapse, BeerElapse, PidElapse, imageFlags
  <2>2. CASE UNCHANGED openVars
    BY <2>2 DEF openVars, missionVars, scanVars, scanLife, imageFlags, beerVars,
       beerLife, pidVars, pidLife
  <2> QED
    BY <2>1, <2>2, CallsKeep, ScanKeeps, BeerKeeps, PidKeeps DEF OpenNext
<1>2. OpenInv => NothingIsLeftOn
  BY DEF NothingIsLeftOn
<1> QED
  BY <1>1, <1>2, OpenBegins, PTL DEF OpenSpec
=============================================================================
