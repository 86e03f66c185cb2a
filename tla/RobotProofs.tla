----------------------------- MODULE RobotProofs ----------------------------
(***************************************************************************)
(* Proofs, for every value of the constants, of the type invariant of      *)
(* module Robot, of the inductive invariant of module RobotInvariant and   *)
(* of the safety properties it implies; then what the songs of the robot   *)
(* have to do with its walk: the tavern is never without its song, which   *)
(* is asked for only when the strollers are resumed; and the two songs of  *)
(* a hunt together outlast a butterfly that its pause did not interrupt;   *)
(* last, that the threads implement MissionProtocol: the initial states    *)
(* are initial, and every step is a step of the protocol or leaves it      *)
(* alone.                                                                  *)
(***************************************************************************)
EXTENDS RobotInvariant, RobotRefinement, TLAPS

(* distance_approach sleeps a whole number of ticks, whatever the distance *)
(* and however its step count wraps.                                       *)
LEMMA ApproachTime ==
  ASSUME NEW d \in Int
  PROVE  approach_time(d) \in Nat
<1>1. 2 * INT16_DIST \in Nat \ {0}
  BY DistAssumption
<1>2. (d + INT16_DIST) % (2 * INT16_DIST) \in Int
  BY <1>1, DistAssumption
<1>3. int16(d) \in Int
  BY <1>2, DistAssumption DEF int16
<1> QED
  BY <1>3 DEF approach_time

(* One more tick keeps a sleep and an elapsed time what they are.          *)
LEMMA Elapsing ==
  /\ \A n \in Nat : Remaining(n) \in Nat
  /\ \A limit \in Nat : \A e \in 0..(limit + 1) : Older(e, limit) \in 0..(limit + 1)
  BY DEF Remaining, Older

-----------------------------------------------------------------------------
(* Type correctness, one component at a time.                              *)

(* The thread of walk.c keeps the types of its variables and of the motors. *)
LEMMA WalkTyped ==
  ASSUME WalkTypeOK, motor \in MotorType, thd_walk
  PROVE  WalkTypeOK' /\ motor' \in MotorType
<1> USE WalkAssumption DEF WalkTypeOK, MotorType, Thread, Wheel, POLL, walkFlags,
        set_speeds, StartTurn
<1>1. CASE WalkIdle       BY <1>1 DEF WalkIdle
<1>2. CASE WalkBegin      BY <1>2 DEF WalkBegin
<1>3. CASE WalkAdvance    BY <1>3 DEF WalkAdvance
<1>4. CASE WalkNextStroke BY <1>4 DEF WalkNextStroke
<1>5. CASE WalkLastStroke BY <1>5 DEF WalkLastStroke
<1>6. CASE WalkRested     BY <1>6 DEF WalkRested
<1> QED BY <1>1, <1>2, <1>3, <1>4, <1>5, <1>6 DEF thd_walk

(* The same for avoid_obstacles.c, whatever the messages of the topic.     *)
LEMMA AvoidTyped ==
  ASSUME AvoidTypeOK, motor \in MotorType, avoid_obstacles
  PROVE  AvoidTypeOK' /\ motor' \in MotorType
<1> USE AvoidAssumption DEF AvoidTypeOK, MotorType, Thread, Wheel, POLL, avoidFlags,
        set_speeds, LastChecked
<1>2. ASSUME NEW m \in SUBSET Sensor, Forward(m), UNCHANGED <<avoidFlags, avoid_i>>
      PROVE  AvoidTypeOK' /\ motor' \in MotorType
  BY <1>2 DEF Forward
<1>3. ASSUME NEW m \in SUBSET Sensor, NEW first \in Nat, AvoidFrom(m, first),
             UNCHANGED avoidFlags,
             Seen(m, first) = {} => motor' \in MotorType
      PROVE  AvoidTypeOK' /\ motor' \in MotorType
  <2>1. CASE Seen(m, first) = {}
    BY <1>3, <2>1 DEF AvoidFrom
  <2>2. CASE Seen(m, first) # {}
    <3>1. avoid_i' \in 0..LastChecked
      BY <1>3, <2>2 DEF AvoidFrom, Seen
    <3> QED BY <1>3, <2>2, <3>1 DEF AvoidFrom, Forward
  <2> QED BY <2>1, <2>2
<1>4. CASE AvoidCalibrated BY <1>4 DEF AvoidCalibrated
<1>5. CASE AvoidIdle       BY <1>5 DEF AvoidIdle
<1>6. CASE AvoidListen     BY <1>6 DEF AvoidListen
<1>7. CASE AvoidMessage    BY <1>3, <1>7 DEF AvoidMessage
<1>8. CASE AvoidTurning
  <2>1. PICK m \in ProxValues :
          IF TurnDone(m, time_avoid)
          THEN Forward(m)
          ELSE /\ prox_values' = m
               /\ avoid_sleep' = POLL
               /\ UNCHANGED <<avoid_pc, time_avoid, motor>>
    BY <1>8 DEF AvoidTurning
  <2> QED BY <1>2, <1>8, <2>1 DEF AvoidTurning
<1>9. CASE AvoidLeave
  <2>1. avoid_i + 1 \in Nat /\ prox_values \in SUBSET Sensor
    OBVIOUS
  <2>2. set_speeds("avoid", 0, 0) => motor' \in MotorType
    OBVIOUS
  <2> QED BY <1>3, <1>9, <2>1, <2>2 DEF AvoidLeave
<1> QED BY <1>4, <1>5, <1>6, <1>7, <1>8, <1>9 DEF avoid_obstacles

(* The same for scan.c, whatever the sensor reads and the camera sees.     *)
LEMMA ScanTyped ==
  ASSUME ScanTypeOK, motor \in MotorType, ScanThread
  PROVE  ScanTypeOK' /\ motor' \in MotorType
<1> USE ScanAssumption
    DEF ScanTypeOK, MotorType, Thread, Wheel, POLL, Color, scanLocals, imageFlags,
        set_speeds
<1>1. CASE ScanStop      BY <1>1 DEF ScanStop
<1>2. CASE ScanTurn      BY <1>2 DEF ScanTurn
<1>3. CASE ScanApproach
  <2>1. ASSUME NEW r \in Readings3 PROVE r[3] \in Int
    <3>1. PICK a \in Dist, b \in Dist : r = <<a, a, b>> \/ r = <<a, b, b>>
      BY DEF Readings3
    <3> QED BY <3>1, DistAssumption
  <2>2. dist_approach' \in Int
    BY <1>3, <2>1 DEF ScanApproach
  <2> QED BY <1>3, <2>2, ApproachTime DEF ScanApproach, approach_move
<1>4. CASE ScanLook      BY <1>4 DEF ScanLook, ProcessImage_resume_thd
<1>5. CASE ScanMatch
  BY <1>5 DEF ScanMatch, ScanJudge, ProcessImage_pause_thd, color_scan
<1>6. CASE ScanMismatch
  <2>1. -dist_approach \in Int
    OBVIOUS
  <2> QED
    BY <1>6, <2>1, ApproachTime
    DEF ScanMismatch, ScanJudge, ProcessImage_pause_thd, color_scan, approach_move
<1>7. CASE ScanRetreated BY <1>7 DEF ScanRetreated
<1>8. CASE ScanTurnAway  BY <1>8 DEF ScanTurnAway
<1>9. CASE ScanClear
  <2>1. scan_thd_exist' = FALSE /\ scan_pc' = "exit"
    BY <1>9 DEF ScanClear
  <2>2. UNCHANGED <<color_mode, good_color, scan_must_stop, scan_sleep, dist_approach,
                    color_scanned, image_is_paused, image_thd_is_created, motor>>
    BY <1>9 DEF ScanClear
  <2>3. motor' \in MotorType
    BY <2>2
  <2>4. color_mode' \in Color /\ color_scanned' \in Color
    BY <2>2
  <2>5. scan_sleep' \in Nat /\ dist_approach' \in Int
    BY <2>2
  <2>6. /\ good_color' \in BOOLEAN
       /\ scan_must_stop' \in BOOLEAN
       /\ scan_thd_exist' \in BOOLEAN
       /\ image_is_paused' \in BOOLEAN
       /\ image_thd_is_created' \in BOOLEAN
    BY <2>1, <2>2
  <2>7. scan_pc' \in {"dead", "poll", "approach", "look", "retreat", "turnaway",
                  "found", "exit"}
    BY <2>1
  <2> QED BY <2>3, <2>4, <2>5, <2>6, <2>7
<1>10. CASE ScanExit     BY <1>10 DEF ScanExit
<1> QED
  BY <1>1, <1>2, <1>3, <1>4, <1>5, <1>6, <1>7, <1>8, <1>9, <1>10 DEF ScanThread

(* The same for beer.c.                                                    *)
LEMMA BeerTyped ==
  ASSUME BeerTypeOK, motor \in MotorType, BeerThread
  PROVE  BeerTypeOK' /\ motor' \in MotorType
<1> USE DistAssumption, BeerAssumption, ApproachTime
    DEF BeerTypeOK, MotorType, Thread, Wheel, POLL, set_speeds, approach_move
<1>1. CASE BeerStop     BY <1>1 DEF BeerStop
<1>2. CASE BeerLook     BY <1>2 DEF BeerLook
<1>3. CASE BeerApproach
  <2>1. beer_dist' \in Int
    BY <1>3 DEF BeerApproach
  <2> QED BY <1>3, <2>1 DEF BeerApproach
<1>4. CASE BeerOrder    BY <1>4 DEF BeerOrder
<1>5. CASE BeerRetreat
  <2>1. -beer_dist \in Int
    OBVIOUS
  <2> QED BY <1>5, <2>1 DEF BeerRetreat
<1>6. CASE BeerServed   BY <1>6 DEF BeerServed
<1>7. CASE BeerClear    BY <1>7 DEF BeerClear
<1>8. CASE BeerExit     BY <1>8 DEF BeerExit
<1> QED BY <1>1, <1>2, <1>3, <1>4, <1>5, <1>6, <1>7, <1>8 DEF BeerThread

(* The same for pid_distance.c, whatever speed the regulator asks for.     *)
LEMMA PidTyped ==
  ASSUME PidTypeOK, motor \in MotorType, PidThread
  PROVE  PidTypeOK' /\ motor' \in MotorType
<1> USE PidAssumption
    DEF PidTypeOK, MotorType, Thread, Wheel, POLL, set_speeds, StableSince, Unset
<1>1. CASE PidStop    BY <1>1 DEF PidStop
<1>2. CASE PidMove    BY <1>2 DEF PidMove
<1>3. CASE PidStand   BY <1>3 DEF PidStand
<1>4. CASE PidStrike  BY <1>4 DEF PidStrike
<1>5. CASE PidRecover BY <1>5 DEF PidRecover
<1>6. CASE PidClear   BY <1>6 DEF PidClear
<1>7. CASE PidExit    BY <1>7 DEF PidExit
<1> QED BY <1>1, <1>2, <1>3, <1>4, <1>5, <1>6, <1>7 DEF PidThread

(* What main calls keeps the types: pausing, resuming or leaving alone the *)
(* strollers, and starting or leaving alone the missions.                  *)
LEMMA StrollersTyped ==
  ASSUME TypeOK, pause_strollers \/ resume_strollers \/ strollersUnchanged
  PROVE  WalkTypeOK' /\ AvoidTypeOK' /\ tavern_threads_resumed' \in BOOLEAN
<1> USE DEF TypeOK, MainTypeOK, WalkTypeOK, AvoidTypeOK, walkVars, avoidVars, walkFlags,
        avoidFlags, walkThread, avoidThread
<1>1. CASE pause_strollers
  BY <1>1 DEF pause_strollers, walk_pause_thd, avoid_obstacles_pause_thd
<1>2. CASE resume_strollers
  BY <1>2 DEF resume_strollers, walk_resume_thd, avoid_obstacles_resume_thd
<1>3. CASE strollersUnchanged
  BY <1>3 DEF strollersUnchanged
<1> QED BY <1>1, <1>2, <1>3

(* Starting and stopping a scan keeps the types of scan.c.                 *)
LEMMA ScanCallTyped ==
  ASSUME ScanTypeOK, color_mode' \in Color, scan_start \/ stop_scan,
         UNCHANGED <<scanLocals, imageFlags>>
  PROVE  ScanTypeOK'
<1> USE DEF ScanTypeOK, scanLocals, imageFlags
<1>1. CASE scan_start /\ scan_thd_exist
  <2>1. UNCHANGED scanLife
    BY <1>1 DEF scan_start
  <2> QED BY <2>1 DEF scanLife
<1>2. CASE scan_start /\ ~scan_thd_exist
  <2>1. good_color' = FALSE /\ scan_must_stop' = FALSE /\ scan_thd_exist' = TRUE
    BY <1>2 DEF scan_start
  <2>2. scan_pc' = "poll" /\ scan_sleep' = 1
    BY <1>2 DEF scan_start, POLL
  <2> QED BY <2>1, <2>2
<1>3. CASE stop_scan
  BY <1>3 DEF stop_scan
<1> QED BY <1>1, <1>2, <1>3

(* Starting and stopping a beer keeps the types of beer.c.                 *)
LEMMA BeerCallTyped ==
  ASSUME BeerTypeOK, beer_start \/ stop_beer, UNCHANGED beer_dist
  PROVE  BeerTypeOK'
<1> USE DEF BeerTypeOK
<1>1. CASE beer_start /\ beer_thd_exist
  <2>1. UNCHANGED beerLife
    BY <1>1 DEF beer_start
  <2> QED BY <2>1 DEF beerLife
<1>2. CASE beer_start /\ ~beer_thd_exist
  <2>1. beer_gotten' = FALSE /\ beer_must_stop' = FALSE /\ beer_thd_exist' = TRUE
    BY <1>2 DEF beer_start
  <2>2. beer_pc' = "poll" /\ beer_sleep' = 1
    BY <1>2 DEF beer_start, POLL
  <2> QED BY <2>1, <2>2
<1>3. CASE stop_beer
  BY <1>3 DEF stop_beer
<1> QED BY <1>1, <1>2, <1>3

(* Starting and stopping a pursuit keeps the types of pid_distance.c.      *)
LEMMA PidCallTyped ==
  ASSUME PidTypeOK, pid_distance_start \/ stop_pid, UNCHANGED stable_time
  PROVE  PidTypeOK'
<1> USE DEF PidTypeOK
<1>1. CASE pid_distance_start /\ pid_thd_exist
  <2>1. UNCHANGED pidLife
    BY <1>1 DEF pid_distance_start
  <2> QED BY <2>1 DEF pidLife
<1>2. CASE pid_distance_start /\ ~pid_thd_exist
  <2>1. is_done' = FALSE /\ pid_must_stop' = FALSE /\ pid_thd_exist' = TRUE
    BY <1>2 DEF pid_distance_start
  <2>2. pid_pc' = "poll" /\ pid_sleep' = 1
    BY <1>2 DEF pid_distance_start, POLL
  <2> QED BY <2>1, <2>2
<1>3. CASE stop_pid
  BY <1>3 DEF stop_pid
<1> QED BY <1>1, <1>2, <1>3

(* What is left alone keeps its type.                                      *)
LEMMA UnchangedTyped ==
  /\ WalkTypeOK /\ UNCHANGED walkVars => WalkTypeOK'
  /\ AvoidTypeOK /\ UNCHANGED avoidVars => AvoidTypeOK'
  /\ ScanTypeOK /\ UNCHANGED scanVars => ScanTypeOK'
  /\ BeerTypeOK /\ UNCHANGED beerVars => BeerTypeOK'
  /\ PidTypeOK /\ UNCHANGED pidVars => PidTypeOK'
<1>1. WalkTypeOK /\ UNCHANGED walkVars => WalkTypeOK'
  BY DEF WalkTypeOK, walkVars, walkFlags, walkThread
<1>2. AvoidTypeOK /\ UNCHANGED avoidVars => AvoidTypeOK'
  BY DEF AvoidTypeOK, avoidVars, avoidFlags, avoidThread
<1>3. ScanTypeOK /\ UNCHANGED scanVars => ScanTypeOK'
  BY DEF ScanTypeOK, scanVars, scanLife, scanLocals, imageFlags
<1>4. BeerTypeOK /\ UNCHANGED beerVars => BeerTypeOK'
  BY DEF BeerTypeOK, beerVars, beerLife
<1>5. PidTypeOK /\ UNCHANGED pidVars => PidTypeOK'
  BY DEF PidTypeOK, pidVars, pidLife
<1> QED BY <1>1, <1>2, <1>3, <1>4, <1>5

(* Every step of main keeps the types.                                     *)
LEMMA MainTyped ==
  ASSUME TypeOK, main
  PROVE  TypeOK'
<1> DEFINE MissionsTyped == ScanTypeOK' /\ BeerTypeOK' /\ PidTypeOK'
<1>1. motor' \in MotorType /\ selector' \in Position
  BY DEF main, TypeOK, MainTypeOK
<1>2. UNCHANGED missionVars => MissionsTyped
  BY UnchangedTyped DEF TypeOK, missionVars
<1> USE RobotAssumption DEF MainTypeOK, MainPc, Music, POLL, goto, BeerTime
<1>3. CASE main_boot
  <2>1. WalkTypeOK' /\ AvoidTypeOK'
    BY <1>3, AvoidAssumption
    DEF main_boot, walk_start_and_pause, avoid_obstacles_start_and_pause, TypeOK,
        WalkTypeOK, AvoidTypeOK, LastChecked
  <2>2. ScanTypeOK'
    BY <1>3 DEF main_boot, TypeOK, ScanTypeOK, scanLife, scanLocals,
       ProcessImage_start_and_pause
  <2>3. MainTypeOK'
    BY <1>1, <1>3 DEF main_boot, TypeOK
  <2> QED BY <1>1, <1>3, <2>1, <2>2, <2>3, UnchangedTyped DEF main_boot, TypeOK
<1>4. CASE EnterTavern
  BY <1>1, <1>2, <1>4, StrollersTyped DEF EnterTavern, TypeOK
<1>5. CASE NotTavern
  BY <1>1, <1>2, <1>5, StrollersTyped DEF NotTavern, TypeOK
<1>6. CASE Stroll
  BY <1>1, <1>2, <1>6, StrollersTyped DEF Stroll, TypeOK
<1>7. CASE GetThirsty
  <2>1. ScanTypeOK'
    BY <1>7, ScanCallTyped DEF GetThirsty, TypeOK, set_color_mode, Color
  <2> QED
    BY <1>1, <1>7, <2>1, StrollersTyped, UnchangedTyped DEF GetThirsty, TypeOK
<1>8. CASE BarFound
  <2>1. BeerTypeOK'
    BY <1>8, BeerCallTyped DEF BarFound, TypeOK
  <2> QED
    BY <1>1, <1>8, <2>1, StrollersTyped, UnchangedTyped DEF BarFound, TypeOK
<1>9. CASE BackToStroll
  BY <1>1, <1>2, <1>9, StrollersTyped DEF BackToStroll, TypeOK
<1>10. CASE LeaveTavern
  BY <1>1, <1>2, <1>10, StrollersTyped DEF LeaveTavern, TypeOK
<1>11. CASE Refreshed
  BY <1>1, <1>2, <1>11, StrollersTyped DEF Refreshed, TypeOK
<1>12. CASE EnterHunt
  <2>1. ScanTypeOK'
    BY <1>12, ScanCallTyped DEF EnterHunt, TypeOK, set_color_mode, Color
  <2> QED
    BY <1>1, <1>12, <2>1, StrollersTyped, UnchangedTyped DEF EnterHunt, TypeOK
<1>13. CASE EnemyFound
  BY <1>1, <1>2, <1>13, StrollersTyped DEF EnemyFound, TypeOK
<1>14. CASE Pursue
  <2>1. PidTypeOK'
    BY <1>14, PidCallTyped DEF Pursue, TypeOK
  <2> QED
    BY <1>1, <1>14, <2>1, StrollersTyped, UnchangedTyped DEF Pursue, TypeOK
<1>15. CASE EnemyHit
  BY <1>1, <1>2, <1>15, StrollersTyped DEF EnemyHit, TypeOK
<1>16. CASE Celebrated
  BY <1>1, <1>2, <1>16, StrollersTyped DEF Celebrated, TypeOK
<1>17. CASE LeaveHunt
  BY <1>1, <1>2, <1>17, StrollersTyped DEF LeaveHunt, TypeOK
<1>18. CASE reinit
  <2>1. ScanTypeOK' /\ BeerTypeOK' /\ PidTypeOK'
    BY <1>18, ScanCallTyped, BeerCallTyped, PidCallTyped
    DEF reinit, TypeOK, ScanTypeOK
  <2> QED
    BY <1>1, <1>18, <2>1, StrollersTyped DEF reinit, TypeOK
<1>19. CASE KeepWaiting
  BY <1>1, <1>2, <1>19, StrollersTyped DEF KeepWaiting, TypeOK
<1> QED
  BY <1>3, <1>4, <1>5, <1>6, <1>7, <1>8, <1>9, <1>10, <1>11, <1>12, <1>13, <1>14,
     <1>15, <1>16, <1>17, <1>18, <1>19 DEF main, tavern_phase, tracking_phase

(* So does the passage of time.                                            *)
LEMMA TickTyped ==
  ASSUME TypeOK, Tick
  PROVE  TypeOK'
<1> USE Elapsing DEF Tick, TypeOK
<1>1. WalkTypeOK'
  BY DEF WalkElapse, WalkTypeOK, walkFlags
<1>2. AvoidTypeOK'
  BY AvoidAssumption DEF AvoidElapse, AvoidTypeOK, avoidFlags
<1>3. ScanTypeOK'
  BY DEF ScanElapse, ScanTypeOK, scanLocals, imageFlags
<1>4. BeerTypeOK'
  BY DEF BeerElapse, BeerTypeOK
<1>5. PidTypeOK'
  BY PidAssumption DEF PidElapse, PidTypeOK, Unset
<1>6. MainTypeOK'
  BY RobotAssumption DEF MainTypeOK, Unset
<1> QED BY <1>1, <1>2, <1>3, <1>4, <1>5, <1>6

(* Every step of the robot keeps the types.                                *)
LEMMA TypeStep == TypeOK /\ [Next]_vars => TypeOK'
<1> SUFFICES ASSUME TypeOK, [Next]_vars PROVE TypeOK'
  OBVIOUS
<1> USE UnchangedTyped DEF TypeOK
<1>1. UNCHANGED mainVars => (selector' \in Position => MainTypeOK')
  BY DEF MainTypeOK, mainVars
<1>2. CASE main
  BY <1>2, MainTyped
<1>3. CASE WalkStep
  BY <1>1, <1>3, WalkTyped DEF WalkStep, otherThan, missionVars, MainTypeOK
<1>4. CASE AvoidStep
  BY <1>1, <1>4, AvoidTyped DEF AvoidStep, otherThan, missionVars, MainTypeOK
<1>5. CASE ScanStep
  BY <1>1, <1>5, ScanTyped DEF ScanStep, otherThan, MainTypeOK
<1>6. CASE BeerStep
  BY <1>1, <1>6, BeerTyped DEF BeerStep, otherThan, MainTypeOK
<1>7. CASE PidStep
  BY <1>1, <1>7, PidTyped DEF PidStep, otherThan, MainTypeOK
<1>8. CASE MoveSelector
  BY <1>1, <1>8 DEF MoveSelector, missionVars
<1>9. CASE Tick
  BY <1>9, TickTyped
<1>10. CASE UNCHANGED vars
  BY <1>1, <1>10 DEF vars, missionVars, MainTypeOK
<1> QED BY <1>2, <1>3, <1>4, <1>5, <1>6, <1>7, <1>8, <1>9, <1>10 DEF Next

(* The robot starts with them.                                             *)
LEMMA TypeInit == Init => TypeOK
<1> SUFFICES ASSUME Init PROVE TypeOK
  OBVIOUS
<1> USE DEF Init
<1>1. WalkTypeOK
  <2>1. walk_is_paused \in BOOLEAN /\ walk_thd_is_created \in BOOLEAN
    BY DEF WalkInit
  <2> QED BY <2>1 DEF WalkInit, WalkTypeOK
<1>2. AvoidTypeOK
  <2>1. avoid_is_paused \in BOOLEAN /\ avoid_thd_is_created \in BOOLEAN
    BY DEF AvoidInit
  <2> QED BY <2>1, AvoidAssumption DEF AvoidInit, AvoidTypeOK, LastChecked
<1>3. ScanTypeOK
  <2>1. /\ good_color \in BOOLEAN /\ scan_must_stop \in BOOLEAN
       /\ scan_thd_exist \in BOOLEAN
       /\ image_is_paused \in BOOLEAN /\ image_thd_is_created \in BOOLEAN
    BY DEF ScanInit
  <2> QED BY <2>1 DEF ScanInit, ScanTypeOK, Color
<1>4. BeerTypeOK
  <2>1. /\ beer_gotten \in BOOLEAN /\ beer_must_stop \in BOOLEAN
       /\ beer_thd_exist \in BOOLEAN
    BY DEF BeerInit
  <2> QED BY <2>1 DEF BeerInit, BeerTypeOK
<1>5. PidTypeOK
  <2>1. /\ is_done \in BOOLEAN /\ pid_must_stop \in BOOLEAN
       /\ pid_thd_exist \in BOOLEAN
    BY DEF PidInit
  <2> QED BY <2>1 DEF PidInit, PidTypeOK
<1>6. MainTypeOK  BY DEF MainTypeOK, MainPc, Music, POLL
<1>7. motor \in MotorType BY DEF MotorType, Wheel, Thread
<1> QED BY <1>1, <1>2, <1>3, <1>4, <1>5, <1>6, <1>7 DEF TypeOK

(* The type invariant of the robot.                                        *)
THEOREM TypeCorrect == Spec => []TypeOK
  BY TypeInit, TypeStep, PTL DEF Spec

-----------------------------------------------------------------------------
(* Where the missions' threads and main may be together.                   *)

(* A step of scan.c keeps the mission invariant.                           *)
LEMMA MissionScan ==
  ASSUME MissionInv, ScanStep
  PROVE  MissionInv'
<1> USE DEF ScanStep, otherThan, mainVars, beerVars, beerLife, pidVars, pidLife,
        MissionInv, FlagsInv, LeavingInv, ScanInv, BeerInv, PidInv,
        ScanDrives, BeerDrives, PidDrives
<1>1. CASE ScanStop      BY <1>1 DEF ScanStop
<1>2. CASE ScanTurn      BY <1>2 DEF ScanTurn
<1>3. CASE ScanApproach  BY <1>3 DEF ScanApproach
<1>4. CASE ScanLook      BY <1>4 DEF ScanLook
<1>5. CASE ScanMatch     BY <1>5 DEF ScanMatch, ScanJudge
<1>6. CASE ScanMismatch  BY <1>6 DEF ScanMismatch, ScanJudge
<1>7. CASE ScanRetreated BY <1>7 DEF ScanRetreated
<1>8. CASE ScanTurnAway  BY <1>8 DEF ScanTurnAway
<1>9. CASE ScanClear     BY <1>9 DEF ScanClear
<1>10. CASE ScanExit     BY <1>10 DEF ScanExit
<1> QED
  BY <1>1, <1>2, <1>3, <1>4, <1>5, <1>6, <1>7, <1>8, <1>9, <1>10 DEF ScanThread

(* So does a step of beer.c: an order takes at least a tick, in which Scan *)
(* is gone.                                                                *)
LEMMA MissionBeer ==
  ASSUME MissionInv, BeerStep
  PROVE  MissionInv'
<1> USE DEF BeerStep, otherThan, mainVars, scanVars, scanLife, pidVars, pidLife,
        MissionInv, FlagsInv, LeavingInv, ScanInv, BeerInv, PidInv,
        ScanDrives, BeerDrives, PidDrives
<1>1. CASE BeerStop     BY <1>1 DEF BeerStop
<1>2. CASE BeerLook     BY <1>2 DEF BeerLook
<1>3. CASE BeerApproach BY <1>3 DEF BeerApproach
<1>4. CASE BeerOrder    BY <1>4, BeerAssumption DEF BeerOrder
<1>5. CASE BeerRetreat  BY <1>5 DEF BeerRetreat
<1>6. CASE BeerServed   BY <1>6 DEF BeerServed
<1>7. CASE BeerClear    BY <1>7 DEF BeerClear
<1>8. CASE BeerExit     BY <1>8 DEF BeerExit
<1> QED BY <1>1, <1>2, <1>3, <1>4, <1>5, <1>6, <1>7, <1>8 DEF BeerThread

(* So does a step of pid_distance.c: the two halves of the animation.      *)
LEMMA MissionPid ==
  ASSUME TypeOK, MissionInv, PidStep
  PROVE  MissionInv'
<1> USE DEF PidStep, otherThan, mainVars, scanVars, scanLife, beerVars, beerLife,
        MissionInv, FlagsInv, LeavingInv, ScanInv, BeerInv, PidInv,
        ScanDrives, BeerDrives, PidDrives
<1>1. CASE PidStop    BY <1>1 DEF PidStop
<1>2. CASE PidMove    BY <1>2 DEF PidMove
<1>3. CASE PidStand   BY <1>3 DEF PidStand
<1>4. CASE PidStrike  BY <1>4, PidAssumption DEF PidStrike
<1>5. CASE PidRecover
  BY <1>5, PidAssumption DEF PidRecover, TypeOK, MainTypeOK, PidTypeOK
<1>6. CASE PidClear
  BY <1>6 DEF PidClear, TypeOK, MainTypeOK, PidTypeOK
<1>7. CASE PidExit    BY <1>7 DEF PidExit
<1> QED BY <1>1, <1>2, <1>3, <1>4, <1>5, <1>6, <1>7 DEF PidThread

(* So does time, which cannot pass while a thread is on its way out.       *)
LEMMA MissionTick ==
  ASSUME TypeOK, MissionInv, Tick
  PROVE  MissionInv'
<1>1. /\ UNCHANGED <<main_pc, thirsty, scan_pc, scan_thd_exist, scan_must_stop, good_color,
                     beer_pc, beer_thd_exist, beer_must_stop, beer_gotten,
                     pid_pc, pid_thd_exist, pid_must_stop, is_done>>
      /\ main_sleep \in Nat /\ main_sleep > 0 /\ main_sleep' = main_sleep - 1
      /\ pid_sleep \in Nat /\ pid_sleep' = IF pid_sleep > 0 THEN pid_sleep - 1 ELSE 0
      /\ scan_pc = "dead" \/ scan_sleep > 0
      /\ beer_pc = "dead" \/ beer_sleep > 0
      /\ pid_pc = "dead" \/ pid_sleep > 0
  BY DEF Tick, ScanElapse, BeerElapse, PidElapse, Remaining, TypeOK, MainTypeOK,
     PidTypeOK, ScanWaits, BeerWaits, PidWaits
<1>2. scan_pc \notin {"found", "exit"} /\ beer_pc \notin {"served", "exit"}
      /\ pid_pc # "exit"
  BY <1>1 DEF MissionInv, LeavingInv
<1>3. FlagsInv' /\ LeavingInv' /\ ScanInv' /\ BeerInv'
  BY <1>1, <1>2
  DEF MissionInv, FlagsInv, LeavingInv, ScanInv, BeerInv, ScanDrives, BeerDrives
<1>4. PidInv'
  BY <1>1, <1>2, PidAssumption DEF MissionInv, PidInv, PidDrives
<1> QED BY <1>3, <1>4 DEF MissionInv

(* So does a step of main: it starts nothing before the last mission is    *)
(* over, and a strike it learns of ends before its song.                   *)
LEMMA MissionMain ==
  ASSUME TypeOK, MissionInv, main
  PROVE  MissionInv'
<1> USE RobotAssumption
    DEF main, missionVars, scanVars, scanLife, beerVars, beerLife, pidVars, pidLife, goto,
        MissionInv, FlagsInv, LeavingInv, ScanInv, BeerInv, PidInv,
        ScanDrives, BeerDrives, PidDrives, POLL
<1>1. CASE main_boot    BY <1>1 DEF main_boot
<1>2. CASE EnterTavern  BY <1>2 DEF EnterTavern
<1>3. CASE NotTavern    BY <1>3 DEF NotTavern
<1>4. CASE Stroll       BY <1>4 DEF Stroll
<1>5. CASE GetThirsty   BY <1>5 DEF GetThirsty, BeerTime, scan_start
<1>6. CASE BarFound     BY <1>6 DEF BarFound, beer_start
<1>7. CASE BackToStroll BY <1>7 DEF BackToStroll
<1>8. CASE LeaveTavern  BY <1>8 DEF LeaveTavern
<1>9. CASE Refreshed    BY <1>9 DEF Refreshed
<1>10. CASE EnterHunt   BY <1>10 DEF EnterHunt, scan_start
<1>11. CASE EnemyFound  BY <1>11 DEF EnemyFound
<1>12. CASE Pursue      BY <1>12 DEF Pursue, pid_distance_start
<1>13. CASE EnemyHit
  BY <1>13, AnimationFitsInSong, PidAssumption DEF EnemyHit, TypeOK, PidTypeOK
<1>14. CASE Celebrated
  BY <1>14, PidAssumption DEF Celebrated, TypeOK, PidTypeOK
<1>15. CASE LeaveHunt   BY <1>15 DEF LeaveHunt
<1>16. CASE reinit      BY <1>16 DEF reinit, stop_scan, stop_beer, stop_pid
<1>17. CASE KeepWaiting BY <1>17 DEF KeepWaiting, MainWaiting
<1> QED
  BY <1>1, <1>2, <1>3, <1>4, <1>5, <1>6, <1>7, <1>8, <1>9, <1>10, <1>11, <1>12, <1>13,
     <1>14, <1>15, <1>16, <1>17 DEF tavern_phase, tracking_phase

(* Every step of the robot keeps the mission invariant.                    *)
LEMMA MissionStep == TypeOK /\ MissionInv /\ [Next]_vars => MissionInv'
<1> SUFFICES ASSUME TypeOK, MissionInv, [Next]_vars PROVE MissionInv'
  OBVIOUS
<1>1. UNCHANGED <<mainVars, missionVars>> => MissionInv'
  BY DEF mainVars, missionVars, scanVars, scanLife, beerVars, beerLife, pidVars, pidLife,
     MissionInv, FlagsInv, LeavingInv, ScanInv, BeerInv, PidInv,
     ScanDrives, BeerDrives, PidDrives
<1>2. CASE main         BY <1>2, MissionMain
<1>3. CASE WalkStep     BY <1>1, <1>3 DEF WalkStep, otherThan
<1>4. CASE AvoidStep    BY <1>1, <1>4 DEF AvoidStep, otherThan
<1>5. CASE ScanStep     BY <1>5, MissionScan
<1>6. CASE BeerStep     BY <1>6, MissionBeer
<1>7. CASE PidStep      BY <1>7, MissionPid
<1>8. CASE MoveSelector BY <1>1, <1>8 DEF MoveSelector
<1>9. CASE Tick         BY <1>9, MissionTick
<1>10. CASE UNCHANGED vars BY <1>1, <1>10 DEF vars
<1> QED BY <1>2, <1>3, <1>4, <1>5, <1>6, <1>7, <1>8, <1>9, <1>10 DEF Next

(* It holds at the start: no mission is there.                             *)
LEMMA MissionInit == Init => MissionInv
  BY DEF Init, ScanInit, BeerInit, PidInit, MissionInv, FlagsInv, LeavingInv, ScanInv,
     BeerInv, PidInv, ScanDrives, BeerDrives, PidDrives

-----------------------------------------------------------------------------
(* The verdict of a scan.                                                  *)

(* main acts on a match only after the scan that it started: its start has *)
(* cleared the last verdict.                                               *)
LEMMA VerdictMain ==
  ASSUME TypeOK, MissionInv, VerdictInv, main
  PROVE  VerdictInv'
<1> USE DEF main, missionVars, scanVars, scanLife, scanLocals, goto, VerdictInv,
        VerdictIsForThisScan
<1>1. CASE main_boot    BY <1>1 DEF main_boot
<1>2. CASE EnterTavern  BY <1>2 DEF EnterTavern
<1>3. CASE NotTavern    BY <1>3 DEF NotTavern
<1>4. CASE Stroll       BY <1>4 DEF Stroll
<1>5. CASE GetThirsty
  <2>1. ~scan_thd_exist
    BY <1>5, RobotAssumption
    DEF GetThirsty, BeerTime, MissionInv, FlagsInv, ScanInv, ScanDrives
  <2> QED BY <1>5, <2>1 DEF GetThirsty, scan_start, set_color_mode
<1>6. CASE BarFound     BY <1>6 DEF BarFound
<1>7. CASE BackToStroll BY <1>7 DEF BackToStroll
<1>8. CASE LeaveTavern  BY <1>8 DEF LeaveTavern
<1>9. CASE Refreshed    BY <1>9 DEF Refreshed
<1>10. CASE EnterHunt
  <2>1. ~scan_thd_exist
    BY <1>10 DEF EnterHunt, MissionInv, FlagsInv, ScanInv, ScanDrives
  <2> QED BY <1>10, <2>1 DEF EnterHunt, scan_start, set_color_mode
<1>11. CASE EnemyFound  BY <1>11 DEF EnemyFound
<1>12. CASE Pursue      BY <1>12 DEF Pursue
<1>13. CASE EnemyHit    BY <1>13 DEF EnemyHit
<1>14. CASE Celebrated  BY <1>14 DEF Celebrated
<1>15. CASE LeaveHunt   BY <1>15 DEF LeaveHunt
<1>16. CASE reinit      BY <1>16 DEF reinit
<1>17. CASE KeepWaiting BY <1>17 DEF KeepWaiting
<1> QED
  BY <1>1, <1>2, <1>3, <1>4, <1>5, <1>6, <1>7, <1>8, <1>9, <1>10, <1>11, <1>12, <1>13,
     <1>14, <1>15, <1>16, <1>17 DEF tavern_phase, tracking_phase

(* Scan reports a match only of the colour it still has to look for.       *)
LEMMA VerdictScan ==
  ASSUME MissionInv, VerdictInv, ScanStep
  PROVE  VerdictInv'
<1> USE DEF ScanStep, otherThan, mainVars, VerdictInv, VerdictIsForThisScan
<1>1. ScanDrives => main_pc \in {"beerScan", "huntScan"} /\ ~good_color
  BY DEF MissionInv, ScanInv
<1>2. CASE ScanStop      BY <1>2 DEF ScanStop, scanLocals
<1>3. CASE ScanTurn      BY <1>1, <1>3 DEF ScanTurn, ScanDrives
<1>4. CASE ScanApproach  BY <1>1, <1>4 DEF ScanApproach, ScanDrives
<1>5. CASE ScanLook      BY <1>5 DEF ScanLook, scanLocals
<1>6. CASE ScanMatch     BY <1>1, <1>6 DEF ScanMatch, ScanJudge, Wanted, ScanDrives
<1>7. CASE ScanMismatch  BY <1>1, <1>7 DEF ScanMismatch, ScanJudge, ScanDrives
<1>8. CASE ScanRetreated BY <1>8 DEF ScanRetreated, scanLocals
<1>9. CASE ScanTurnAway  BY <1>9 DEF ScanTurnAway, scanLocals
<1>10. CASE ScanClear    BY <1>10 DEF ScanClear, scanLocals
<1>11. CASE ScanExit     BY <1>11 DEF ScanExit, scanLocals
<1> QED
  BY <1>2, <1>3, <1>4, <1>5, <1>6, <1>7, <1>8, <1>9, <1>10, <1>11 DEF ScanThread

(* Every step of the robot keeps what is known of the verdict.             *)
LEMMA VerdictStep == TypeOK /\ MissionInv /\ VerdictInv /\ [Next]_vars => VerdictInv'
<1> SUFFICES ASSUME TypeOK, MissionInv, VerdictInv, [Next]_vars PROVE VerdictInv'
  OBVIOUS
<1>1. UNCHANGED <<main_pc, color_mode, good_color, color_scanned>> => VerdictInv'
  BY DEF VerdictInv, VerdictIsForThisScan
<1> USE DEF otherThan, mainVars, missionVars, scanVars, scanLife, scanLocals
<1>2. CASE main         BY <1>2, VerdictMain
<1>3. CASE WalkStep     BY <1>1, <1>3 DEF WalkStep
<1>4. CASE AvoidStep    BY <1>1, <1>4 DEF AvoidStep
<1>5. CASE ScanStep     BY <1>5, VerdictScan
<1>6. CASE BeerStep     BY <1>1, <1>6 DEF BeerStep
<1>7. CASE PidStep      BY <1>1, <1>7 DEF PidStep
<1>8. CASE MoveSelector BY <1>1, <1>8 DEF MoveSelector
<1>9. CASE Tick         BY <1>1, <1>9 DEF Tick, ScanElapse
<1>10. CASE UNCHANGED vars BY <1>1, <1>10 DEF vars
<1> QED BY <1>2, <1>3, <1>4, <1>5, <1>6, <1>7, <1>8, <1>9, <1>10 DEF Next

(* At the start main waits for no verdict.                                 *)
LEMMA VerdictInit == Init => VerdictInv
  BY DEF Init, ScanInit, VerdictInv, VerdictIsForThisScan

-----------------------------------------------------------------------------
(* The pauses of the strollers.                                            *)

(* main's record follows the flags it sets.                                *)
LEMMA PauseMain ==
  ASSUME PauseInv, main
  PROVE  PauseInv'
<1> USE DEF main, PauseInv, goto, strollersUnchanged, walkVars, walkFlags, avoidVars,
        avoidFlags, pause_strollers, walk_pause_thd, avoid_obstacles_pause_thd
<1>1. CASE main_boot
  BY <1>1 DEF main_boot, walk_start_and_pause, avoid_obstacles_start_and_pause
<1>2. CASE EnterTavern
  BY <1>2 DEF EnterTavern, resume_strollers, walk_resume_thd, avoid_obstacles_resume_thd
<1>3. CASE NotTavern    BY <1>3 DEF NotTavern
<1>4. CASE Stroll       BY <1>4 DEF Stroll
<1>5. CASE GetThirsty   BY <1>5 DEF GetThirsty
<1>6. CASE BarFound     BY <1>6 DEF BarFound
<1>7. CASE BackToStroll
  BY <1>7 DEF BackToStroll, resume_strollers, walk_resume_thd, avoid_obstacles_resume_thd
<1>8. CASE LeaveTavern  BY <1>8 DEF LeaveTavern
<1>9. CASE Refreshed    BY <1>9 DEF Refreshed
<1>10. CASE EnterHunt   BY <1>10 DEF EnterHunt
<1>11. CASE EnemyFound  BY <1>11 DEF EnemyFound
<1>12. CASE Pursue      BY <1>12 DEF Pursue
<1>13. CASE EnemyHit    BY <1>13 DEF EnemyHit
<1>14. CASE Celebrated  BY <1>14 DEF Celebrated
<1>15. CASE LeaveHunt   BY <1>15 DEF LeaveHunt
<1>16. CASE reinit      BY <1>16 DEF reinit
<1>17. CASE KeepWaiting BY <1>17 DEF KeepWaiting, MainWaiting
<1> QED
  BY <1>1, <1>2, <1>3, <1>4, <1>5, <1>6, <1>7, <1>8, <1>9, <1>10, <1>11, <1>12, <1>13,
     <1>14, <1>15, <1>16, <1>17 DEF tavern_phase, tracking_phase

(* Nobody else touches the flags or the record.                            *)
LEMMA PauseStep == PauseInv /\ [Next]_vars => PauseInv'
<1> SUFFICES ASSUME PauseInv, [Next]_vars PROVE PauseInv'
  OBVIOUS
<1>1. UNCHANGED <<main_pc, tavern_threads_resumed, walkFlags, avoidFlags>> =>
        \/ PauseInv'
        \/ main_pc = "boot" /\ ~(walk_pc' = "none" /\ avoid_pc' = "none")
  BY DEF PauseInv, walkFlags, avoidFlags
<1> USE DEF otherThan, mainVars, walkVars, avoidVars, walkThread, avoidThread, PauseInv
<1>2. CASE main         BY <1>2, PauseMain
<1>3. CASE WalkStep
  BY <1>1, <1>3
  DEF WalkStep, thd_walk, StartTurn, WalkIdle, WalkBegin, WalkAdvance, WalkNextStroke,
      WalkLastStroke, WalkRested
<1>4. CASE AvoidStep
  BY <1>1, <1>4
  DEF AvoidStep, avoid_obstacles, AvoidCalibrated, AvoidIdle, AvoidListen, AvoidMessage,
      AvoidTurning, AvoidLeave
<1>5. CASE ScanStep     BY <1>1, <1>5 DEF ScanStep
<1>6. CASE BeerStep     BY <1>1, <1>6 DEF BeerStep
<1>7. CASE PidStep      BY <1>1, <1>7 DEF PidStep
<1>8. CASE MoveSelector BY <1>1, <1>8 DEF MoveSelector
<1>9. CASE Tick         BY <1>1, <1>9 DEF Tick, WalkElapse, AvoidElapse
<1>10. CASE UNCHANGED vars BY <1>1, <1>10 DEF vars
<1> QED BY <1>2, <1>3, <1>4, <1>5, <1>6, <1>7, <1>8, <1>9, <1>10 DEF Next

(* At the start nothing is resumed and no stroller exists.                 *)
LEMMA PauseInit == Init => PauseInv
  BY DEF Init, WalkInit, AvoidInit, PauseInv

-----------------------------------------------------------------------------
(* The wheels.                                                             *)

(* main makes no thread a driver that could find the wheels turning, nor   *)
(* takes the wheel from a thread that drives.                              *)
LEMMA StillMain ==
  ASSUME MissionInv, PauseInv, IdleMeansStill, main
  PROVE  IdleMeansStill'
<1> USE DEF main, missionVars, scanVars, scanLife, beerVars, beerLife, pidVars, pidLife,
        strollersUnchanged, walkVars, walkThread, avoidVars, avoidThread,
        IdleMeansStill, NobodyDrives, PidDrives
<1>1. CASE main_boot
  BY <1>1
  DEF main_boot, walk_start_and_pause, avoid_obstacles_start_and_pause, PauseInv
<1>2. CASE EnterTavern  BY <1>2 DEF EnterTavern, resume_strollers
<1>3. CASE NotTavern    BY <1>3 DEF NotTavern
<1>4. CASE Stroll       BY <1>4 DEF Stroll
<1>5. CASE GetThirsty   BY <1>5 DEF GetThirsty, pause_strollers, scan_start
<1>6. CASE BarFound     BY <1>6 DEF BarFound, beer_start, MissionInv, FlagsInv
<1>7. CASE BackToStroll BY <1>7 DEF BackToStroll, resume_strollers
<1>8. CASE LeaveTavern  BY <1>8 DEF LeaveTavern
<1>9. CASE Refreshed    BY <1>9 DEF Refreshed
<1>10. CASE EnterHunt   BY <1>10 DEF EnterHunt, pause_strollers, scan_start
<1>11. CASE EnemyFound  BY <1>11 DEF EnemyFound
<1>12. CASE Pursue      BY <1>12 DEF Pursue, pid_distance_start
<1>13. CASE EnemyHit    BY <1>13 DEF EnemyHit
<1>14. CASE Celebrated  BY <1>14 DEF Celebrated
<1>15. CASE LeaveHunt   BY <1>15 DEF LeaveHunt
<1>16. CASE reinit
  BY <1>16 DEF reinit, pause_strollers, stop_beer, stop_scan, stop_pid
<1>17. CASE KeepWaiting BY <1>17 DEF KeepWaiting
<1> QED
  BY <1>1, <1>2, <1>3, <1>4, <1>5, <1>6, <1>7, <1>8, <1>9, <1>10, <1>11, <1>12, <1>13,
     <1>14, <1>15, <1>16, <1>17 DEF tavern_phase, tracking_phase

(* A step of a thread that writes to the motors either leaves it driving   *)
(* or has stopped them.                                                    *)
LEMMA StillThreads ==
  ASSUME IdleMeansStill, WalkStep \/ AvoidStep \/ ScanStep \/ BeerStep \/ PidStep
  PROVE  IdleMeansStill'
<1> USE DEF otherThan, missionVars, scanVars, scanLife, beerVars, beerLife,
        pidVars, pidLife, walkVars, walkThread, avoidVars, avoidThread, set_speeds,
        approach_move, IdleMeansStill, NobodyDrives, PidDrives
<1>1. CASE WalkStep
  BY <1>1
  DEF WalkStep, thd_walk, WalkIdle, WalkBegin, WalkAdvance, WalkNextStroke,
      WalkLastStroke, WalkRested, StartTurn
<1>2. CASE AvoidStep
  <2>1. ASSUME NEW m, NEW first, AvoidFrom(m, first), Seen(m, first) # {}
        PROVE  avoid_pc' \in {"turning", "leaving"}
    BY <2>1 DEF AvoidFrom, Forward
  <2>2. ASSUME NEW m, NEW first, AvoidFrom(m, first), Seen(m, first) = {}
        PROVE  avoid_pc' = "poll"
    BY <2>2 DEF AvoidFrom
  <2>3. CASE AvoidMessage
    BY <1>2, <2>1, <2>2, <2>3 DEF AvoidStep, AvoidMessage
  <2>4. CASE AvoidTurning
    BY <1>2, <2>4 DEF AvoidStep, AvoidTurning, Forward
  <2>5. CASE AvoidLeave
    BY <1>2, <2>1, <2>2, <2>5 DEF AvoidStep, AvoidLeave
  <2>6. CASE AvoidCalibrated \/ AvoidIdle \/ AvoidListen
    BY <1>2, <2>6 DEF AvoidStep, AvoidCalibrated, AvoidIdle, AvoidListen
  <2> QED BY <1>2, <2>3, <2>4, <2>5, <2>6 DEF AvoidStep, avoid_obstacles
<1>3. CASE ScanStep
  BY <1>3
  DEF ScanStep, ScanThread, ScanStop, ScanTurn, ScanApproach, ScanLook, ScanJudge,
      ScanMatch, ScanMismatch, ScanRetreated, ScanTurnAway, ScanClear, ScanExit
<1>4. CASE BeerStep
  BY <1>4
  DEF BeerStep, BeerThread, BeerStop, BeerLook, BeerApproach, BeerOrder, BeerRetreat,
      BeerServed, BeerClear, BeerExit
<1>5. CASE PidStep
  BY <1>5
  DEF PidStep, PidThread, PidStop, PidMove, PidStand, PidStrike, PidRecover, PidClear,
      PidExit
<1> QED BY <1>1, <1>2, <1>3, <1>4, <1>5

(* Every step of the robot leaves the wheels still if nobody drives.       *)
LEMMA StillStep ==
  MissionInv /\ PauseInv /\ IdleMeansStill /\ [Next]_vars => IdleMeansStill'
<1> SUFFICES ASSUME MissionInv, PauseInv, IdleMeansStill, [Next]_vars
             PROVE  IdleMeansStill'
  OBVIOUS
<1>1. UNCHANGED <<motor, walk_pc, avoid_pc, scan_pc, beer_pc, pid_pc>> => IdleMeansStill'
  BY DEF IdleMeansStill, NobodyDrives, PidDrives
<1>2. CASE main         BY <1>2, StillMain
<1>3. CASE WalkStep \/ AvoidStep \/ ScanStep \/ BeerStep \/ PidStep
  BY <1>3, StillThreads
<1> USE DEF missionVars, scanVars, scanLife, beerVars, beerLife, pidVars, pidLife,
        walkVars, walkThread, avoidVars, avoidThread
<1>4. CASE MoveSelector BY <1>1, <1>4 DEF MoveSelector
<1>5. CASE Tick
  BY <1>1, <1>5 DEF Tick, WalkElapse, AvoidElapse, ScanElapse, BeerElapse, PidElapse
<1>6. CASE UNCHANGED vars BY <1>1, <1>6 DEF vars
<1> QED BY <1>2, <1>3, <1>4, <1>5, <1>6 DEF Next

(* The wheels are still at the start.                                      *)
LEMMA StillInit == Init => IdleMeansStill
  BY DEF Init, IdleMeansStill

-----------------------------------------------------------------------------
(* The theorems.                                                           *)

(* The inductive invariant holds of every behaviour: what main waits for,  *)
(* what each mission's thread is at and how long each of them still sleeps *)
(* stay in step, whatever the timing.                                      *)
THEOREM Invariant == Spec => []IInv
<1>1. Init => IInv
  BY TypeInit, MissionInit, VerdictInit, PauseInit, StillInit DEF IInv
<1>2. IInv /\ [Next]_vars => IInv'
  BY TypeStep, MissionStep, VerdictStep, PauseStep, StillStep DEF IInv
<1> QED BY <1>1, <1>2, PTL DEF Spec

(* Two missions are never at the wheel together.                           *)
THEOREM Exclusive == Spec => []MissionExclusive
<1>1. IInv => MissionExclusive
  BY DEF IInv, MissionInv, ScanInv, BeerInv, PidInv, MissionExclusive, ScanDrives,
     BeerDrives, PidDrives
<1> QED BY <1>1, Invariant, PTL

(* The branches on must_stop of the three missions are dead code.          *)
THEOREM StopsAreIdle == Spec => []StopsFindNobody
<1>1. IInv => StopsFindNobody
  BY DEF IInv, TypeOK, ScanTypeOK, BeerTypeOK, PidTypeOK, MissionInv, ScanInv, BeerInv,
     PidInv, StopsFindNobody, ScanDrives, BeerDrives, PidDrives
<1> QED BY <1>1, Invariant, PTL

(* main acts only on the verdict of the scan it started.                   *)
THEOREM VerdictIsFresh == Spec => []VerdictIsForThisScan
<1>1. IInv => VerdictIsForThisScan
  BY DEF IInv, VerdictInv
<1> QED BY <1>1, Invariant, PTL

(* The strollers are as main believes them to be, and paused on a mission. *)
THEOREM PausedOnMission == Spec => []StrollersPausedOnMission
<1>1. IInv => StrollersPausedOnMission
  <2> SUFFICES ASSUME IInv PROVE StrollersPausedOnMission
    OBVIOUS
  <2>1. ScanDrives \/ BeerDrives \/ PidDrives =>
          main_pc \in {"beerScan", "huntScan", "beerWait", "pursuit", "victory"}
    BY DEF IInv, MissionInv, ScanInv, BeerInv, PidInv, PidDrives
  <2> QED
    BY <2>1 DEF IInv, PauseInv, StrollersPausedOnMission, Strollers
<1> QED BY <1>1, Invariant, PTL

(* The wheels stand still when nobody drives.                              *)
THEOREM Still == Spec => []IdleMeansStill
<1>1. IInv => IdleMeansStill
  BY DEF IInv
<1> QED BY <1>1, Invariant, PTL

(* No mission main starts is ignored, or begun on a stack still in use.    *)
THEOREM StartsAfresh == Spec => MissionStartsAfresh
<1> DEFINE Fresh ==
      main_pc' # main_pc =>
        /\ main_pc' \in {"beerScan", "huntScan"} => scan_pc = "dead" /\ scan_pc' = "poll"
        /\ main_pc' = "beerWait" => beer_pc = "dead" /\ beer_pc' = "poll"
        /\ main_pc' = "pursuit" => pid_pc = "dead" /\ pid_pc' = "poll"
<1>1. IInv /\ [Next]_vars => [Fresh]_vars
  <2> SUFFICES ASSUME IInv, Next PROVE Fresh
    OBVIOUS
  <2>1. CASE main
    <3> USE DEF main, goto
    <3>1. CASE GetThirsty
      <4>1. scan_pc = "dead" /\ ~scan_thd_exist
        BY <3>1, RobotAssumption
        DEF IInv, TypeOK, ScanTypeOK, MissionInv, FlagsInv, ScanInv, GetThirsty,
            ScanDrives
      <4> QED BY <3>1, <4>1 DEF GetThirsty, scan_start
    <3>2. CASE EnterHunt
      <4>1. scan_pc = "dead" /\ ~scan_thd_exist
        BY <3>2
        DEF IInv, TypeOK, ScanTypeOK, MissionInv, FlagsInv, ScanInv, EnterHunt,
            ScanDrives
      <4> QED BY <3>2, <4>1 DEF EnterHunt, scan_start
    <3>3. CASE BarFound
      <4>1. beer_pc = "dead" /\ ~beer_thd_exist
        BY <3>3
        DEF IInv, TypeOK, BeerTypeOK, MissionInv, FlagsInv, BeerInv, BarFound,
            BeerDrives
      <4> QED BY <3>3, <4>1 DEF BarFound, beer_start
    <3>4. CASE Pursue
      <4>1. pid_pc = "dead" /\ ~pid_thd_exist
        BY <3>4 DEF IInv, TypeOK, PidTypeOK, MissionInv, FlagsInv, PidInv, Pursue
      <4> QED BY <3>4, <4>1 DEF Pursue, pid_distance_start
    <3>5. CASE main_boot \/ NotTavern \/ EnterTavern \/ Stroll \/ BackToStroll
               \/ LeaveTavern \/ Refreshed
      BY <3>5
      DEF main_boot, NotTavern, EnterTavern, Stroll, BackToStroll, LeaveTavern, Refreshed
    <3>6. CASE EnemyFound \/ EnemyHit \/ Celebrated \/ LeaveHunt \/ reinit \/ KeepWaiting
      BY <3>6 DEF EnemyFound, EnemyHit, Celebrated, LeaveHunt, reinit, KeepWaiting
    <3> QED
      BY <2>1, <3>1, <3>2, <3>3, <3>4, <3>5, <3>6 DEF tavern_phase, tracking_phase
  <2>2. CASE ~main
    <3>1. main_pc' = main_pc
      BY <2>2
      DEF Next, WalkStep, AvoidStep, ScanStep, BeerStep, PidStep, otherThan, mainVars,
          MoveSelector, Tick
    <3> QED BY <3>1
  <2> QED BY <2>1, <2>2
<1> QED BY <1>1, Invariant, PTL DEF Spec, MissionStartsAfresh

-----------------------------------------------------------------------------
(* The songs.                                                              *)

(* Where main may resume no strollers, they stroll to the tavern's song.   *)
SongInv ==
  /\ main_pc \in {"stroll", "beerScan", "beerWait", "refresh"}
       => music_to_play = "TAVERN_SONG"
  /\ main_pc \in {"loop", "loop2"} /\ tavern_threads_resumed
       => music_to_play = "TAVERN_SONG"
  /\ main_pc = "hold" => ~tavern_threads_resumed

(* Every step of main keeps the song with the tavern.                      *)
LEMMA SongMain ==
  ASSUME SongInv, PauseInv, main
  PROVE  SongInv'
<1> USE DEF main, goto, SongInv, PauseInv, strollersUnchanged
<1>1. CASE main_boot    BY <1>1 DEF main_boot
<1>2. CASE EnterTavern  BY <1>2 DEF EnterTavern
<1>3. CASE NotTavern    BY <1>3 DEF NotTavern
<1>4. CASE Stroll       BY <1>4 DEF Stroll
<1>5. CASE GetThirsty   BY <1>5 DEF GetThirsty
<1>6. CASE BarFound     BY <1>6 DEF BarFound
<1>7. CASE BackToStroll BY <1>7 DEF BackToStroll
<1>8. CASE LeaveTavern  BY <1>8 DEF LeaveTavern
<1>9. CASE Refreshed    BY <1>9 DEF Refreshed
<1>10. CASE EnterHunt   BY <1>10 DEF EnterHunt
<1>11. CASE EnemyFound  BY <1>11 DEF EnemyFound
<1>12. CASE Pursue      BY <1>12 DEF Pursue
<1>13. CASE EnemyHit    BY <1>13 DEF EnemyHit
<1>14. CASE Celebrated  BY <1>14 DEF Celebrated
<1>15. CASE LeaveHunt   BY <1>15 DEF LeaveHunt
<1>16. CASE reinit      BY <1>16 DEF reinit, pause_strollers
<1>17. CASE KeepWaiting BY <1>17 DEF KeepWaiting
<1> QED
  BY <1>1, <1>2, <1>3, <1>4, <1>5, <1>6, <1>7, <1>8, <1>9, <1>10, <1>11, <1>12, <1>13,
     <1>14, <1>15, <1>16, <1>17 DEF tavern_phase, tracking_phase

(* ... and no other thread touches it.                                     *)
LEMMA SongStep == SongInv /\ PauseInv /\ [Next]_vars => SongInv'
<1> SUFFICES ASSUME SongInv, PauseInv, [Next]_vars PROVE SongInv'
  OBVIOUS
<1>1. CASE main
  BY <1>1, SongMain
<1>2. CASE UNCHANGED <<main_pc, music_to_play, tavern_threads_resumed>>
  BY <1>2 DEF SongInv
<1> QED
  BY <1>1, <1>2
  DEF Next, vars, mainVars, WalkStep, AvoidStep, ScanStep, BeerStep, PidStep, otherThan,
      MoveSelector, Tick

(* The tavern is never without its song.                                   *)
THEOREM SongInTavern == Spec => []TavernHasItsSong
<1>1. Init => SongInv
  BY DEF Init, SongInv
<1>2. IInv => PauseInv
  BY DEF IInv
<1>3. SongInv => TavernHasItsSong
  BY DEF SongInv, TavernHasItsSong
<1> QED BY <1>1, <1>2, <1>3, SongStep, Invariant, PTL DEF Spec

-----------------------------------------------------------------------------
(* How long the butterfly under way still takes, by the sleeps and strokes *)
(* that are left of it.                                                    *)
StrokeTime == TIME_TURN_BUTTERFLY + TIME_SEGMENT_BUTTERFLY

Butterfly == StrokeTime + StrokeTime + StrokeTime + BUTTERFLY_WAIT_TIME

StrokesLeft(i) ==
  IF i = 0 THEN StrokeTime + StrokeTime ELSE IF i = 1 THEN StrokeTime ELSE 0

WalkLeft ==
  IF walk_pc = "turn"
  THEN walk_sleep + TIME_SEGMENT_BUTTERFLY + StrokesLeft(walk_i) + BUTTERFLY_WAIT_TIME
  ELSE IF walk_pc = "segment" THEN walk_sleep + StrokesLeft(walk_i) + BUTTERFLY_WAIT_TIME
  ELSE IF walk_pc = "rest" THEN walk_sleep ELSE 0

(* A paused butterfly loses the time that main sings.                      *)
EndingInv ==
  /\ main_pc # "boot" => walk_pc # "none"
  /\ WalkLeft <= Butterfly
  /\ walk_pc \in {"turn", "segment", "rest"} =>
       /\ main_pc = "alert" => WalkLeft + TRANSITION_SONG_DURATION <= Butterfly + main_sleep
       /\ main_pc = "pursuit" => WalkLeft + TRANSITION_SONG_DURATION <= Butterfly
       /\ main_pc = "victory" =>
            WalkLeft + TRANSITION_SONG_DURATION + TRANSITION_SONG_DURATION
              <= Butterfly + main_sleep
       /\ main_pc # "hold"

(* 7 s of butterfly against twice 5 s of song. *)
SongsOutlastButterfly ==
  Butterfly < TRANSITION_SONG_DURATION + TRANSITION_SONG_DURATION

(* The times of the walk, and what is left of a butterfly at each stroke.  *)
LEMMA Times ==
  /\ TIME_TURN_BUTTERFLY \in Nat /\ TIME_SEGMENT_BUTTERFLY \in Nat
  /\ BUTTERFLY_WAIT_TIME \in Nat /\ StrokeTime \in Nat /\ Butterfly \in Nat
  /\ TRANSITION_SONG_DURATION \in Nat
  /\ StrokesLeft(0) = StrokeTime + StrokeTime /\ StrokesLeft(1) = StrokeTime
  /\ StrokesLeft(2) = 0
  /\ Butterfly = StrokeTime + StrokeTime + StrokeTime + BUTTERFLY_WAIT_TIME
  /\ StrokeTime = TIME_TURN_BUTTERFLY + TIME_SEGMENT_BUTTERFLY
  BY WalkAssumption, RobotAssumption DEF StrokeTime, Butterfly, StrokesLeft

(* What is left of the walk is a time.                                     *)
LEMMA WalkLeftTyped == TypeOK => WalkLeft \in Nat
<1> SUFFICES ASSUME TypeOK PROVE WalkLeft \in Nat
  OBVIOUS
<1>1. walk_sleep \in Nat /\ walk_i \in {0, 1, 2}
  BY DEF TypeOK, WalkTypeOK
<1>2. StrokesLeft(walk_i) \in Nat
  BY <1>1, Times
<1> QED BY <1>1, <1>2, Times DEF WalkLeft

(* A step of walk.c changes nothing of what is left, but for the beginning *)
(* of a butterfly, which the pause forbids.                                *)
LEMMA EndingWalk ==
  ASSUME TypeOK, PauseInv, SongInv, EndingInv, WalkStep
  PROVE  EndingInv'
<1> USE DEF WalkStep, otherThan, mainVars
<1>1. walk_sleep \in Nat /\ walk_i \in {0, 1, 2} /\ main_sleep \in Nat
  BY DEF TypeOK, WalkTypeOK, MainTypeOK
<1>2. CASE WalkIdle
  BY <1>2, Times DEF WalkIdle, EndingInv, WalkLeft
<1>3. CASE WalkBegin
  <2>1. ~walk_is_paused /\ walk_pc' = "turn" /\ walk_i' = 0
        /\ walk_sleep' = TIME_TURN_BUTTERFLY
    BY <1>3 DEF WalkBegin, StartTurn
  <2>2. main_pc \notin {"alert", "pursuit", "victory", "hold"}
    BY <2>1 DEF PauseInv, SongInv
  <2>3. WalkLeft' = TIME_TURN_BUTTERFLY + TIME_SEGMENT_BUTTERFLY + StrokesLeft(0)
                     + BUTTERFLY_WAIT_TIME
    BY <2>1 DEF WalkLeft, StrokesLeft
  <2> QED BY <2>1, <2>2, <2>3, Times DEF EndingInv
<1>4. CASE WalkAdvance \/ WalkNextStroke \/ WalkLastStroke
  <2>1. CASE WalkAdvance
    <3>1. /\ walk_pc = "turn" /\ walk_sleep = 0
          /\ walk_pc' = "segment" /\ walk_sleep' = TIME_SEGMENT_BUTTERFLY /\ walk_i' = walk_i
      BY <2>1 DEF WalkAdvance
    <3>2. StrokesLeft(walk_i)' = StrokesLeft(walk_i) /\ StrokesLeft(walk_i) \in Nat
      BY <3>1, <1>1, Times DEF StrokesLeft
    <3>3. WalkLeft' = WalkLeft
      BY <3>1, <3>2, Times DEF WalkLeft
    <3> QED BY <3>1, <3>3 DEF EndingInv
  <2>2. CASE WalkNextStroke
    <3>1. /\ walk_pc = "segment" /\ walk_sleep = 0 /\ walk_i < 2
          /\ walk_pc' = "turn" /\ walk_sleep' = TIME_TURN_BUTTERFLY /\ walk_i' = walk_i + 1
      BY <2>2 DEF WalkNextStroke, StartTurn
    <3>2. StrokesLeft(walk_i) = StrokeTime + StrokesLeft(walk_i)'
          /\ StrokesLeft(walk_i)' \in Nat
      BY <3>1, <1>1, Times DEF StrokesLeft
    <3>3. WalkLeft' = WalkLeft
      BY <3>1, <3>2, Times DEF WalkLeft
    <3> QED BY <3>1, <3>3 DEF EndingInv
  <2>3. CASE WalkLastStroke
    <3>1. /\ walk_pc = "segment" /\ walk_sleep = 0 /\ walk_i = 2
          /\ walk_pc' = "rest" /\ walk_sleep' = BUTTERFLY_WAIT_TIME
      BY <2>3 DEF WalkLastStroke
    <3>2. WalkLeft' = WalkLeft
      BY <3>1, Times DEF WalkLeft
    <3> QED BY <3>1, <3>2 DEF EndingInv
  <2> QED BY <1>4, <2>1, <2>2, <2>3
<1>5. CASE WalkRested
  BY <1>5, Times DEF WalkRested, EndingInv, WalkLeft
<1> QED BY <1>2, <1>3, <1>4, <1>5 DEF WalkStep, thd_walk

(* A tick takes the same from both.                                        *)
LEMMA EndingTick ==
  ASSUME TypeOK, EndingInv, Tick
  PROVE  EndingInv'
<1>1. /\ walk_sleep \in Nat /\ walk_i \in {0, 1, 2} /\ main_sleep \in Nat
      /\ main_sleep > 0 /\ main_sleep' = main_sleep - 1
      /\ walk_pc = "none" \/ walk_sleep > 0
      /\ walk_sleep > 0 => walk_sleep' = walk_sleep - 1
      /\ UNCHANGED <<main_pc, walk_pc, walk_i>>
  BY DEF Tick, WalkElapse, WalkWaits, Remaining, TypeOK, WalkTypeOK, MainTypeOK
<1>2. StrokesLeft(walk_i)' = StrokesLeft(walk_i) /\ StrokesLeft(walk_i) \in Nat
  BY <1>1, Times DEF StrokesLeft
<1>3. CASE walk_pc \in {"turn", "segment", "rest"}
  <2>1. WalkLeft' = WalkLeft - 1 /\ WalkLeft \in Nat
    BY <1>1, <1>2, <1>3, Times, WalkLeftTyped DEF WalkLeft
  <2> QED BY <1>1, <1>3, <2>1, Times DEF EndingInv
<1>4. CASE walk_pc \notin {"turn", "segment", "rest"}
  <2>1. WalkLeft' = 0
    BY <1>1, <1>4 DEF WalkLeft
  <2> QED BY <1>1, <1>4, <2>1, Times DEF EndingInv
<1> QED BY <1>3, <1>4

(* A step of main leaves the walk alone; its two songs are what counts.    *)
LEMMA EndingMain ==
  ASSUME SongsOutlastButterfly, TypeOK, EndingInv, main
  PROVE  EndingInv'
<1> USE DEF main, goto
<1>1. /\ main_sleep \in Nat /\ main_pc \in MainPc /\ WalkLeft \in Nat
  BY WalkLeftTyped DEF TypeOK, MainTypeOK
<1>2. CASE main_boot
  <2>1. walk_pc' = "poll" /\ main_pc' = "loop"
    BY <1>2 DEF main_boot, walk_start_and_pause
  <2>2. WalkLeft' = 0
    BY <2>1 DEF WalkLeft
  <2> QED BY <2>1, <2>2, Times DEF EndingInv
<1>3. CASE ~main_boot
  <2>1. UNCHANGED <<walk_pc, walk_i, walk_sleep>> /\ main_pc # "boot"
    BY <1>3
    DEF tavern_phase, tracking_phase, EnterTavern, NotTavern, Stroll, GetThirsty, BarFound,
        BackToStroll, LeaveTavern, Refreshed, EnterHunt, EnemyFound, Pursue, EnemyHit,
        Celebrated, LeaveHunt, reinit, KeepWaiting, MainWaiting, strollersUnchanged,
        pause_strollers, resume_strollers, walkVars, walkThread
  <2>2. WalkLeft' = WalkLeft
    BY <2>1 DEF WalkLeft, StrokesLeft
  <2>3. CASE EnemyFound
    <3>1. main_pc' = "alert" /\ main_sleep' = TRANSITION_SONG_DURATION
      BY <2>3 DEF EnemyFound
    <3> QED BY <3>1, <2>1, <2>2, <1>1, Times DEF EndingInv
  <2>4. CASE Pursue
    <3>1. main_pc = "alert" /\ main_pc' = "pursuit" /\ main_sleep = 0
      BY <2>4 DEF Pursue
    <3> QED BY <3>1, <2>1, <2>2, <1>1, Times DEF EndingInv
  <2>5. CASE EnemyHit
    <3>1. main_pc = "pursuit" /\ main_pc' = "victory"
          /\ main_sleep' = TRANSITION_SONG_DURATION
      BY <2>5 DEF EnemyHit
    <3> QED BY <3>1, <2>1, <2>2, <1>1, Times DEF EndingInv
  <2>6. CASE Celebrated
    <3>1. main_pc = "victory" /\ main_pc' = "hold" /\ main_sleep = 0
      BY <2>6 DEF Celebrated
    <3>2. walk_pc \notin {"turn", "segment", "rest"}
      BY <3>1, <1>1, Times DEF EndingInv, SongsOutlastButterfly
    <3> QED BY <3>1, <3>2, <2>1, <2>2 DEF EndingInv
  <2>7. CASE KeepWaiting
    <3>1. main_pc' = main_pc /\ main_pc \notin {"alert", "victory"}
      BY <2>7 DEF KeepWaiting, MainWaiting
    <3> QED BY <3>1, <2>1, <2>2 DEF EndingInv
  <2>8. CASE ~(EnemyFound \/ Pursue \/ EnemyHit \/ Celebrated \/ KeepWaiting)
    <3>1. main_pc' \notin {"alert", "pursuit", "victory", "hold"}
      BY <1>3, <2>8
      DEF tavern_phase, tracking_phase, EnterTavern, NotTavern, Stroll, GetThirsty,
          BarFound, BackToStroll, LeaveTavern, Refreshed, EnterHunt, LeaveHunt, reinit
    <3> QED BY <3>1, <2>1, <2>2 DEF EndingInv
  <2> QED BY <2>3, <2>4, <2>5, <2>6, <2>7, <2>8
<1> QED BY <1>2, <1>3

(* Main, the walk and the time keep the end of the walk before that of the *)
(* song.                                                                   *)
LEMMA EndingStep ==
  ASSUME SongsOutlastButterfly, TypeOK, PauseInv, SongInv, EndingInv, [Next]_vars
  PROVE  EndingInv'
<1>1. CASE main     BY <1>1, EndingMain
<1>2. CASE WalkStep BY <1>2, EndingWalk
<1>3. CASE Tick     BY <1>3, EndingTick
<1>4. CASE UNCHANGED <<main_pc, main_sleep, walk_pc, walk_i, walk_sleep>>
  BY <1>4 DEF EndingInv, WalkLeft, StrokesLeft
<1> QED
  BY <1>1, <1>2, <1>3, <1>4
  DEF Next, vars, mainVars, walkVars, walkThread, AvoidStep, ScanStep, BeerStep, PidStep,
      otherThan, MoveSelector

(* Once main holds, the walk has come to its end, if the two songs of a    *)
(* hunt take longer than a butterfly.                                      *)
THEOREM WalkEnds ==
  ASSUME SongsOutlastButterfly
  PROVE  Spec => []WalkEndsBeforeHold
<1>1. Init => SongInv /\ EndingInv
  BY Times DEF Init, SongInv, EndingInv, WalkInit, WalkLeft
<1>2. TypeOK /\ PauseInv /\ SongInv /\ EndingInv /\ [Next]_vars => EndingInv'
  BY EndingStep
<1>3. IInv => TypeOK /\ PauseInv
  BY DEF IInv
<1>4. TypeOK /\ EndingInv => WalkEndsBeforeHold
  BY DEF EndingInv, WalkEndsBeforeHold, TypeOK, WalkTypeOK
<1> QED BY <1>1, <1>2, <1>3, <1>4, SongStep, Invariant, PTL DEF Spec

-----------------------------------------------------------------------------
(* The threads implement MissionProtocol.                                  *)

(* The whole of the mapping is left as it is. *)
Unseen == UNCHANGED <<errandPhase, atTheWheel, color_mode, mayStroll>>

(* The protocol takes a step, or none. *)
Kept == Protocol!Next \/ Unseen

-----------------------------------------------------------------------------
(* Who may be at the wheel in each phase.                                  *)

(* Whoever drives, drives alone, and main waits for it.                    *)
LEMMA AtTheWheel ==
  ASSUME IInv
  PROVE  /\ ScanDrives => /\ main_pc \in {"beerScan", "huntScan"} /\ ~good_color
                          /\ ~BeerDrives /\ ~PidDrives
         /\ BeerDrives => /\ main_pc = "beerWait" /\ ~beer_gotten
                          /\ ~ScanDrives /\ ~PidDrives
         /\ PidDrives => /\ main_pc \in {"pursuit", "victory"}
                         /\ ~ScanDrives /\ ~BeerDrives
  BY DEF IInv, MissionInv, ScanInv, BeerInv, PidInv, PidDrives

(* A step that changes neither main's place, the results, the colour, the  *)
(* pauses nor who drives is none of the protocol's.                        *)
LEMMA Quiet ==
  ASSUME UNCHANGED <<main_pc, good_color, beer_gotten, is_done, color_mode,
                     walk_is_paused, walk_thd_is_created, avoid_is_paused,
                     avoid_thd_is_created>>,
         ScanDrives' <=> ScanDrives, BeerDrives' <=> BeerDrives, PidDrives' <=> PidDrives
  PROVE  Unseen
<1>1. UNCHANGED errandPhase
  BY DEF errandPhase
<1>2. UNCHANGED atTheWheel
  BY DEF atTheWheel
<1>3. UNCHANGED mayStroll
  BY DEF mayStroll
<1> QED BY <1>1, <1>2, <1>3 DEF Unseen

-----------------------------------------------------------------------------
(* The missions' threads.                                                  *)

(* scan.c makes the sighting, and is otherwise of no concern.              *)
LEMMA ScanKeeps ==
  ASSUME IInv, ScanStep
  PROVE  Kept
<1> USE DEF ScanStep, otherThan, mainVars, walkVars, walkFlags, avoidVars, avoidFlags,
        beerVars, beerLife, pidVars, pidLife
<1>1. UNCHANGED <<main_pc, beer_gotten, is_done, walk_is_paused, walk_thd_is_created,
                  avoid_is_paused, avoid_thd_is_created, beer_pc, pid_pc>>
  OBVIOUS
<1>2. (BeerDrives' <=> BeerDrives) /\ (PidDrives' <=> PidDrives)
  BY <1>1 DEF BeerDrives, PidDrives
<1>3. CASE ScanMatch
  <2>1. ScanDrives /\ ~ScanDrives'
    BY <1>3 DEF ScanMatch, ScanJudge, ScanDrives
  <2>2. main_pc \in {"beerScan", "huntScan"} /\ ~good_color /\ ~BeerDrives /\ ~PidDrives
    BY <2>1, AtTheWheel
  <2>3. good_color' /\ UNCHANGED color_mode
    BY <1>3 DEF ScanMatch, ScanJudge
  <2>4. errandPhase = "seeking" /\ errandPhase' = "sighted"
    BY <1>1, <2>2, <2>3 DEF errandPhase
  <2>5. atTheWheel = {"scan"} /\ atTheWheel' = {}
    BY <1>2, <2>1, <2>2 DEF atTheWheel
  <2>6. UNCHANGED mayStroll
    BY <1>1 DEF mayStroll
  <2>7. Protocol!Sight
    BY <2>3, <2>4, <2>5, <2>6 DEF Protocol!Sight, Protocol!step
  <2> QED BY <2>7 DEF Kept, Protocol!Next
<1>4. CASE ScanStop
  (* nobody asks a scan to stop *)
  BY <1>4 DEF ScanStop, IInv, MissionInv, ScanInv, ScanDrives
<1>5. CASE ScanMismatch
  <2>1. ScanDrives /\ ScanDrives' /\ UNCHANGED color_mode
    BY <1>5 DEF ScanMismatch, ScanJudge, ScanDrives
  <2>2. UNCHANGED good_color
    BY <1>5, <2>1, AtTheWheel DEF ScanMismatch, IInv, TypeOK, ScanTypeOK
  <2> QED BY <1>1, <1>2, <2>1, <2>2, Quiet DEF Kept
<1>6. CASE ScanTurn \/ ScanApproach \/ ScanLook \/ ScanRetreated \/ ScanTurnAway
           \/ ScanClear \/ ScanExit
  <2>1. UNCHANGED <<good_color, color_mode>>
    BY <1>6
    DEF ScanTurn, ScanApproach, ScanLook, ScanRetreated, ScanTurnAway, ScanClear, ScanExit
  <2>2. ScanDrives' <=> ScanDrives
    BY <1>6
    DEF ScanTurn, ScanApproach, ScanLook, ScanRetreated, ScanTurnAway, ScanClear,
        ScanExit, ScanDrives
  <2> QED BY <1>1, <1>2, <2>1, <2>2, Quiet DEF Kept
<1> QED BY <1>3, <1>4, <1>5, <1>6 DEF ScanThread

(* beer.c serves.                                                          *)
LEMMA BeerKeeps ==
  ASSUME IInv, BeerStep
  PROVE  Kept
<1> USE DEF BeerStep, otherThan, mainVars, walkVars, walkFlags, avoidVars, avoidFlags,
        scanVars, scanLife, pidVars, pidLife
<1>1. UNCHANGED <<main_pc, good_color, is_done, color_mode, walk_is_paused,
                  walk_thd_is_created, avoid_is_paused, avoid_thd_is_created,
                  scan_pc, pid_pc>>
  OBVIOUS
<1>2. (ScanDrives' <=> ScanDrives) /\ (PidDrives' <=> PidDrives)
  BY <1>1 DEF ScanDrives, PidDrives
<1>3. CASE BeerServed
  <2>1. BeerDrives /\ ~BeerDrives' /\ beer_gotten'
    BY <1>3 DEF BeerServed, BeerDrives
  <2>2. main_pc = "beerWait" /\ ~beer_gotten /\ ~ScanDrives /\ ~PidDrives
    BY <2>1, AtTheWheel
  <2>3. errandPhase = "fetching" /\ errandPhase' = "served"
    BY <1>1, <2>1, <2>2 DEF errandPhase
  <2>4. atTheWheel = {"beer"} /\ atTheWheel' = {}
    BY <1>2, <2>1, <2>2 DEF atTheWheel
  <2>5. UNCHANGED mayStroll
    BY <1>1 DEF mayStroll
  <2>6. Protocol!Serve
    BY <1>1, <2>3, <2>4, <2>5 DEF Protocol!Serve, Protocol!step
  <2> QED BY <2>6 DEF Kept, Protocol!Next
<1>4. CASE BeerStop
  BY <1>4 DEF BeerStop, IInv, MissionInv, BeerInv, BeerDrives
<1>5. CASE BeerLook \/ BeerApproach \/ BeerOrder \/ BeerRetreat \/ BeerClear \/ BeerExit
  <2>1. UNCHANGED beer_gotten
    BY <1>5 DEF BeerLook, BeerApproach, BeerOrder, BeerRetreat, BeerClear, BeerExit
  <2>2. BeerDrives' <=> BeerDrives
    BY <1>5
    DEF BeerLook, BeerApproach, BeerOrder, BeerRetreat, BeerClear, BeerExit, BeerDrives
  <2> QED BY <1>1, <1>2, <2>1, <2>2, Quiet DEF Kept
<1> QED BY <1>3, <1>4, <1>5 DEF BeerThread

(* pid_distance.c tells of its strike, and lowers the sword later.         *)
LEMMA PidKeeps ==
  ASSUME IInv, PidStep
  PROVE  Kept
<1> USE DEF PidStep, otherThan, mainVars, walkVars, walkFlags, avoidVars, avoidFlags,
        scanVars, scanLife, beerVars, beerLife
<1>1. UNCHANGED <<main_pc, good_color, beer_gotten, color_mode, walk_is_paused,
                  walk_thd_is_created, avoid_is_paused, avoid_thd_is_created,
                  scan_pc, beer_pc>>
  OBVIOUS
<1>2. (ScanDrives' <=> ScanDrives) /\ (BeerDrives' <=> BeerDrives)
  BY <1>1 DEF ScanDrives, BeerDrives
<1>3. UNCHANGED mayStroll
  BY <1>1 DEF mayStroll
<1>4. CASE PidStrike
  <2>1. main_pc = "pursuit" /\ ~is_done /\ is_done'
    BY <1>4 DEF PidStrike, IInv, MissionInv, PidInv
  <2>2. errandPhase = "chasing" /\ errandPhase' = "struck"
    BY <1>1, <2>1 DEF errandPhase
  <2>3. PidDrives' <=> PidDrives
    BY <1>4 DEF PidStrike, PidDrives
  <2>4. UNCHANGED atTheWheel
    BY <1>2, <2>3 DEF atTheWheel
  <2>5. Protocol!Strike
    BY <1>1, <1>3, <2>2, <2>4 DEF Protocol!Strike, Protocol!step
  <2> QED BY <2>5 DEF Kept, Protocol!Next
<1>5. CASE PidClear
  <2>1. PidDrives /\ ~PidDrives' /\ UNCHANGED is_done
    BY <1>5 DEF PidClear, PidDrives
  <2>2. main_pc \in {"pursuit", "victory"} /\ ~ScanDrives /\ ~BeerDrives
    BY <2>1, AtTheWheel
  <2>3. atTheWheel = {"pid"} /\ atTheWheel' = {}
    BY <1>2, <2>1, <2>2 DEF atTheWheel
  <2>4. main_pc = "pursuit" => is_done
    BY <1>5 DEF PidClear, IInv, MissionInv, PidInv
  <2>5. errandPhase = "struck" /\ errandPhase' = "struck"
    BY <1>1, <2>1, <2>2, <2>4 DEF errandPhase
  <2>6. Protocol!LowerTheSword
    BY <1>1, <1>3, <2>3, <2>5 DEF Protocol!LowerTheSword, Protocol!step
  <2> QED BY <2>6 DEF Kept, Protocol!Next
<1>6. CASE PidStop
  BY <1>6 DEF PidStop, IInv, MissionInv, PidInv, PidDrives
<1>7. CASE PidMove \/ PidStand \/ PidRecover \/ PidExit
  <2>1. UNCHANGED is_done
    BY <1>7 DEF PidMove, PidStand, PidRecover, PidExit
  <2>2. PidDrives' <=> PidDrives
    BY <1>7 DEF PidMove, PidStand, PidRecover, PidExit, PidDrives
  <2> QED BY <1>1, <1>2, <2>1, <2>2, Quiet DEF Kept
<1> QED BY <1>4, <1>5, <1>6, <1>7 DEF PidThread

-----------------------------------------------------------------------------
(* main.                                                                   *)

(* In a phase that main alone ends, nobody is at the wheel if main is not  *)
(* waiting for the one who was.                                            *)
LEMMA NobodyAtTheWheel ==
  ASSUME IInv,
         \/ main_pc \in {"boot", "loop", "loop2", "stroll", "refresh", "alert", "hold"}
         \/ main_pc \in {"beerScan", "huntScan"} /\ good_color
         \/ main_pc = "beerWait" /\ beer_gotten
  PROVE  /\ ~ScanDrives /\ ~BeerDrives /\ ~PidDrives
         /\ atTheWheel = {}
<1>1. ~ScanDrives /\ ~BeerDrives /\ ~PidDrives
  BY AtTheWheel
<1> QED BY <1>1 DEF atTheWheel

(* Steps of main between errands, and its waiting.                         *)
LEMMA MainFree ==
  ASSUME IInv, main,
         main_boot \/ NotTavern \/ EnterTavern \/ Stroll \/ LeaveTavern \/ Refreshed
         \/ LeaveHunt \/ reinit
  PROVE  Kept
<1> USE DEF main, goto, missionVars, scanVars, scanLife, beerVars, beerLife, pidVars,
        pidLife
<1>1. /\ main_pc \in {"boot", "loop", "loop2", "stroll", "refresh", "hold"}
      /\ main_pc' \in {"loop", "loop2", "stroll", "refresh"}
  BY DEF main_boot, NotTavern, EnterTavern, Stroll, LeaveTavern, Refreshed, LeaveHunt, reinit
<1>2. errandPhase = "free" /\ errandPhase' = "free"
  BY <1>1 DEF errandPhase
<1>3. UNCHANGED <<color_mode, scan_pc, beer_pc, pid_pc>>
  BY DEF main_boot, NotTavern, EnterTavern, Stroll, LeaveTavern, Refreshed, LeaveHunt,
     reinit, ProcessImage_start_and_pause, stop_scan, stop_beer, stop_pid
<1>4. UNCHANGED atTheWheel
  BY <1>3 DEF atTheWheel, ScanDrives, BeerDrives, PidDrives
<1>5. mayStroll' \in BOOLEAN
  BY DEF mayStroll
<1>6. Protocol!StrollOrRest
  BY <1>2, <1>3, <1>4, <1>5 DEF Protocol!StrollOrRest, Protocol!step
<1> QED BY <1>6 DEF Kept, Protocol!Next

(* Both strollers are paused by the step that pauses them.                 *)
LEMMA Resting ==
  ASSUME pause_strollers
  PROVE  mayStroll' = FALSE
  BY DEF pause_strollers, walk_pause_thd, avoid_obstacles_pause_thd, mayStroll

(* The scans main starts.                                                  *)
LEMMA MainSeeks ==
  ASSUME IInv, main, GetThirsty \/ EnterHunt
  PROVE  Kept
<1> USE DEF main, goto, missionVars, scanVars, scanLife, beerVars, beerLife, pidVars,
        pidLife
<1>1. main_pc \in {"stroll", "loop2"} /\ main_pc' \in {"beerScan", "huntScan"}
  BY DEF GetThirsty, EnterHunt
<1>2. /\ ~ScanDrives /\ ~BeerDrives /\ ~PidDrives
      /\ atTheWheel = {}
  BY <1>1, NobodyAtTheWheel
<1>3. ~scan_thd_exist
  BY <1>2, RobotAssumption
  DEF IInv, MissionInv, FlagsInv, ScanInv, ScanDrives, GetThirsty, EnterHunt, BeerTime
<1>4. /\ scan_pc' = "poll" /\ ~good_color'
      /\ UNCHANGED <<beer_pc, pid_pc>>
  BY <1>3 DEF GetThirsty, EnterHunt, scan_start
<1>5. errandPhase = "free" /\ errandPhase' = "seeking"
  BY <1>1, <1>4 DEF errandPhase
<1>6. atTheWheel' = {"scan"}
  BY <1>2, <1>4 DEF atTheWheel, ScanDrives, BeerDrives, PidDrives
<1>7. mayStroll' = FALSE
  BY Resting DEF GetThirsty, EnterHunt
<1>8. \E color \in {"NOIR", "ROUGE"} : color_mode' = color
  BY DEF GetThirsty, EnterHunt, set_color_mode
<1>9. \E color \in {"NOIR", "ROUGE"} : Protocol!Seek(color)
  BY <1>2, <1>5, <1>6, <1>7, <1>8 DEF Protocol!Seek, Protocol!step
<1> QED BY <1>9 DEF Kept, Protocol!Next

(* The beer that a sighting of the bar leads to.                           *)
LEMMA MainFetches ==
  ASSUME IInv, main, BarFound
  PROVE  Kept
<1> USE DEF main, goto, BarFound, pidVars, pidLife, scanVars, scanLife
<1>1. atTheWheel = {} /\ ~ScanDrives /\ ~BeerDrives /\ ~PidDrives
  BY NobodyAtTheWheel
<1>2. beer_pc = "dead" /\ ~beer_thd_exist
  BY <1>1 DEF IInv, TypeOK, BeerTypeOK, MissionInv, FlagsInv, BeerInv, BeerDrives
<1>3. beer_pc' = "poll" /\ ~beer_gotten' /\ UNCHANGED <<scan_pc, pid_pc>>
  BY <1>2 DEF beer_start
<1>4. atTheWheel' = {"beer"}
  BY <1>1, <1>3 DEF atTheWheel, ScanDrives, BeerDrives, PidDrives
<1>5. errandPhase = "sighted" /\ errandPhase' = "fetching"
  BY <1>3 DEF errandPhase
<1>6. color_mode = "NOIR" /\ UNCHANGED color_mode
  BY DEF IInv, VerdictInv
<1>7. UNCHANGED mayStroll
  BY DEF mayStroll, strollersUnchanged, walkVars, walkFlags, avoidVars, avoidFlags
<1>8. Protocol!Fetch
  BY <1>1, <1>4, <1>5, <1>6, <1>7 DEF Protocol!Fetch, Protocol!ActOn, Protocol!step
<1> QED BY <1>8 DEF Kept, Protocol!Next

(* The stroll after the beer.                                              *)
LEMMA MainStrollsAgain ==
  ASSUME IInv, main, BackToStroll
  PROVE  Kept
<1> USE DEF main, goto, BackToStroll, missionVars, scanVars, scanLife, beerVars, beerLife,
        pidVars, pidLife
<1>1. atTheWheel = {}
  BY NobodyAtTheWheel
<1>2. UNCHANGED <<atTheWheel, color_mode>>
  BY DEF atTheWheel, ScanDrives, BeerDrives, PidDrives
<1>3. errandPhase = "served" /\ errandPhase' = "free"
  BY DEF errandPhase
<1>4. mayStroll' = TRUE
  BY DEF mayStroll, IInv, PauseInv, strollersUnchanged, resume_strollers, walk_resume_thd,
     avoid_obstacles_resume_thd, walkVars, walkFlags, avoidVars, avoidFlags
<1>5. Protocol!StrollAgain
  BY <1>1, <1>2, <1>3, <1>4 DEF Protocol!StrollAgain, Protocol!step
<1> QED BY <1>5 DEF Kept, Protocol!Next

(* The pursuit that a sighting of the enemy leads to.                      *)
LEMMA MainChases ==
  ASSUME IInv, main, Pursue
  PROVE  Kept
<1> USE DEF main, goto, Pursue, scanVars, scanLife, beerVars, beerLife
<1>1. atTheWheel = {} /\ ~ScanDrives /\ ~BeerDrives /\ ~PidDrives
  BY NobodyAtTheWheel
<1>2. ~pid_thd_exist
  BY DEF IInv, TypeOK, PidTypeOK, MissionInv, FlagsInv, PidInv
<1>3. pid_pc' = "poll" /\ ~is_done' /\ UNCHANGED <<scan_pc, beer_pc>>
  BY <1>2 DEF pid_distance_start
<1>4. atTheWheel' = {"pid"}
  BY <1>1, <1>3 DEF atTheWheel, ScanDrives, BeerDrives, PidDrives
<1>5. errandPhase = "sighted" /\ errandPhase' = "chasing"
  BY <1>3 DEF errandPhase
<1>6. color_mode = "ROUGE" /\ UNCHANGED color_mode
  BY DEF IInv, VerdictInv
<1>7. UNCHANGED mayStroll
  BY DEF mayStroll, strollersUnchanged, walkVars, walkFlags, avoidVars, avoidFlags
<1>8. Protocol!Chase
  BY <1>1, <1>4, <1>5, <1>6, <1>7 DEF Protocol!Chase, Protocol!ActOn, Protocol!step
<1> QED BY <1>8 DEF Kept, Protocol!Next

(* The end of the celebration.                                             *)
LEMMA MainCelebrated ==
  ASSUME IInv, main, Celebrated
  PROVE  Kept
<1> USE DEF main, goto, Celebrated, missionVars, scanVars, scanLife, beerVars, beerLife,
        pidVars, pidLife
<1>1. ~ScanDrives /\ ~BeerDrives
  BY AtTheWheel
<1>2. ~PidDrives
  <2>1. pid_sleep \in Nat /\ main_sleep = 0 /\ main_pc = "victory"
    BY DEF IInv, TypeOK, PidTypeOK
  <2>2. PidInv
    BY DEF IInv, MissionInv
  <2> QED BY <2>1, <2>2, PidAssumption DEF PidInv, PidDrives
<1>3. atTheWheel = {}
  BY <1>1, <1>2 DEF atTheWheel
<1>4. UNCHANGED <<atTheWheel, color_mode>>
  BY DEF atTheWheel, ScanDrives, BeerDrives, PidDrives
<1>5. errandPhase = "struck" /\ errandPhase' = "free"
  BY DEF errandPhase
<1>6. UNCHANGED mayStroll
  BY DEF mayStroll, strollersUnchanged, walkVars, walkFlags, avoidVars, avoidFlags
<1>7. Protocol!EndOfHunt
  BY <1>3, <1>4, <1>5, <1>6 DEF Protocol!EndOfHunt, Protocol!step
<1> QED BY <1>7 DEF Kept, Protocol!Next

(* Steps of main that leave the phase as it is.                            *)
LEMMA MainWaits ==
  ASSUME IInv, main, EnemyFound \/ EnemyHit \/ KeepWaiting
  PROVE  Unseen
<1> USE DEF main, goto, missionVars, scanVars, scanLife, beerVars, beerLife, pidVars,
        pidLife
<1>1. UNCHANGED <<good_color, beer_gotten, is_done, color_mode, scan_pc, beer_pc, pid_pc>>
  BY DEF EnemyFound, EnemyHit, KeepWaiting
<1>2. UNCHANGED mayStroll
  BY DEF EnemyFound, EnemyHit, KeepWaiting, mayStroll, strollersUnchanged, walkVars,
     walkFlags, avoidVars, avoidFlags
<1>3. UNCHANGED atTheWheel
  BY <1>1 DEF atTheWheel, ScanDrives, BeerDrives, PidDrives
<1>4. UNCHANGED errandPhase
  BY <1>1 DEF errandPhase, EnemyFound, EnemyHit, KeepWaiting
<1> QED BY <1>1, <1>2, <1>3, <1>4 DEF Unseen

(* Every step of main is one of these.                                     *)
LEMMA MainKeeps ==
  ASSUME IInv, main
  PROVE  Kept
<1>1. CASE main_boot \/ NotTavern \/ EnterTavern \/ Stroll \/ LeaveTavern \/ Refreshed
           \/ LeaveHunt \/ reinit
  BY <1>1, MainFree
<1>2. CASE GetThirsty \/ EnterHunt   BY <1>2, MainSeeks
<1>3. CASE BarFound                  BY <1>3, MainFetches
<1>4. CASE BackToStroll              BY <1>4, MainStrollsAgain
<1>5. CASE Pursue                    BY <1>5, MainChases
<1>6. CASE Celebrated                BY <1>6, MainCelebrated
<1>7. CASE EnemyFound \/ EnemyHit \/ KeepWaiting
  BY <1>7, MainWaits DEF Kept
<1> QED
  BY <1>1, <1>2, <1>3, <1>4, <1>5, <1>6, <1>7 DEF main, tavern_phase, tracking_phase

(* Nobody else is of concern to the protocol.                              *)
LEMMA OthersQuiet ==
  ASSUME WalkStep \/ AvoidStep \/ MoveSelector \/ Tick \/ UNCHANGED vars
  PROVE  Unseen
<1>1. UNCHANGED <<walkFlags, avoidFlags>>
  <2>1. CASE WalkStep
    BY <2>1
    DEF WalkStep, otherThan, avoidVars, thd_walk, StartTurn, WalkIdle, WalkBegin,
        WalkAdvance, WalkNextStroke, WalkLastStroke, WalkRested
  <2>2. CASE AvoidStep
    BY <2>2
    DEF AvoidStep, otherThan, walkVars, avoid_obstacles, AvoidCalibrated, AvoidIdle,
        AvoidListen, AvoidMessage, AvoidTurning, AvoidLeave
  <2>3. CASE MoveSelector \/ Tick \/ UNCHANGED vars
    BY <2>3 DEF MoveSelector, Tick, WalkElapse, AvoidElapse, vars, walkVars, avoidVars
  <2> QED BY <2>1, <2>2, <2>3
<1>2. UNCHANGED <<main_pc, good_color, beer_gotten, is_done, color_mode, scan_pc, beer_pc,
                  pid_pc>>
  BY DEF WalkStep, AvoidStep, MoveSelector, Tick, vars, otherThan, mainVars, missionVars,
     scanVars, scanLife, beerVars, beerLife, pidVars, pidLife, ScanElapse, BeerElapse,
     PidElapse
<1>3. /\ ScanDrives' <=> ScanDrives
      /\ BeerDrives' <=> BeerDrives
      /\ PidDrives' <=> PidDrives
  BY <1>2 DEF ScanDrives, BeerDrives, PidDrives
<1> QED BY <1>1, <1>2, <1>3, Quiet DEF walkFlags, avoidFlags

-----------------------------------------------------------------------------
(* The robot, whatever the order of its threads, keeps the protocol of     *)
(* missions that main.c promises.                                          *)
THEOREM Refines == Spec => KeepsProtocol
<1>1. Init => Protocol!Init
  <2> SUFFICES ASSUME Init PROVE Protocol!Init
    OBVIOUS
  <2>1. errandPhase = "free"
    BY DEF Init, errandPhase
  <2>2. atTheWheel = {}
    BY DEF Init, ScanInit, BeerInit, PidInit, atTheWheel, ScanDrives, BeerDrives, PidDrives
  <2>3. color_mode = "AUTRE"
    BY DEF Init, ScanInit
  <2>4. mayStroll = FALSE
    BY DEF Init, WalkInit, AvoidInit, mayStroll
  <2> QED BY <2>1, <2>2, <2>3, <2>4 DEF Protocol!Init
<1>2. IInv /\ [Next]_vars => [Protocol!Next]_(Protocol!protocolVars)
  <2> SUFFICES ASSUME IInv, [Next]_vars PROVE Kept
    BY DEF Kept, Unseen, Protocol!protocolVars
  <2>1. CASE main     BY <2>1, MainKeeps
  <2>2. CASE ScanStep BY <2>2, ScanKeeps
  <2>3. CASE BeerStep BY <2>3, BeerKeeps
  <2>4. CASE PidStep  BY <2>4, PidKeeps
  <2>5. CASE WalkStep \/ AvoidStep \/ MoveSelector \/ Tick \/ UNCHANGED vars
    BY <2>5, OthersQuiet DEF Kept
  <2> QED BY <2>1, <2>2, <2>3, <2>4, <2>5 DEF Next
<1> QED BY <1>1, <1>2, Invariant, PTL DEF Spec, KeepsProtocol, Protocol!Spec
=============================================================================
