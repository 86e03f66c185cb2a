-------------------------------- MODULE Robot -------------------------------
(***************************************************************************)
(* main.c: the main thread that reads the selector and runs the tavern or  *)
(* the hunt, together with the threads it pauses, resumes, starts and      *)
(* waits for.  Every thread is a separate actor; the passage of time is an *)
(* action of its own, possible only when all of them sleep.                *)
(***************************************************************************)
EXTENDS Walk, AvoidObstacles, Scan, Beer, PidDistance

CONSTANTS
  TIMEOUR_BEER_STROLL,        (* ticks before the robot gets thirsty         *)
  TRANSITION_SONG_DURATION,   (* ticks main sleeps for a transition song     *)
  TAVERN_REFRESH              (* ticks main sleeps when it left the tavern   *)

ASSUME RobotAssumption ==
  /\ TIMEOUR_BEER_STROLL \in Nat
  /\ TRANSITION_SONG_DURATION \in Nat \ {0}
  /\ TAVERN_REFRESH \in Nat \ {0}

(* 357 ms and 1000 ms of animation against a song of 5 s.                  *)
ASSUME AnimationFitsInSong ==
  TIME_ANIMATION1 + TIME_ANIMATION2 < TRANSITION_SONG_DURATION

VARIABLES
  selector,       (* the position of the rotary selector: not the program's *)
  main_pc,        (* where main is, see MainPc                              *)
  main_sleep,
  tavern_threads_resumed,
  thirsty,
  beer_time,      (* the static of that name, as the ticks since it was set *)
  music_to_play   (* melody_player.c's: the song asked for                  *)

mainVars == <<main_pc, main_sleep, tavern_threads_resumed, thirsty, beer_time,
              music_to_play>>
missionVars == <<scanVars, beerVars, pidVars>>
vars == <<selector, mainVars, motor, walkVars, avoidVars, missionVars>>

Position == {"TAVERN", "HUNT", "OTHER"}
Music == {"NO_SONG", "TAVERN_SONG", "PURSUIT_SONG", "ENEMY_DETECTION_SONG",
          "VICTORY_SONG", "RADAR_SONG"}
MainPc == {"boot",                              (* before the loop of main  *)
           "loop", "loop2",                     (* first, second get_selector *)
           "stroll", "beerScan", "beerWait", "refresh",
           "huntScan", "alert", "pursuit", "victory", "hold"}

MainTypeOK ==
  /\ selector \in Position
  /\ main_pc \in MainPc
  /\ main_sleep \in Nat
  /\ tavern_threads_resumed \in BOOLEAN
  /\ thirsty \in BOOLEAN
  /\ beer_time \in {Unset} \cup 0..(TIMEOUR_BEER_STROLL + 1)
  /\ music_to_play \in Music

(* The type invariant of the whole robot.                                  *)
TypeOK ==
  /\ MainTypeOK
  /\ motor \in MotorType
  /\ WalkTypeOK
  /\ AvoidTypeOK
  /\ ScanTypeOK
  /\ BeerTypeOK
  /\ PidTypeOK

Init ==
  /\ selector \in Position
  /\ main_pc = "boot"
  /\ main_sleep = POLL
  /\ tavern_threads_resumed = FALSE
  /\ thirsty = FALSE
  /\ beer_time = Unset
  /\ music_to_play = "NO_SONG"
  /\ motor = [left |-> 0, right |-> 0, by |-> "main"]
  /\ WalkInit
  /\ AvoidInit
  /\ ScanInit
  /\ BeerInit
  /\ PidInit

-----------------------------------------------------------------------------
(* Steps of main.  A step that calls neither of a component's functions    *)
(* leaves that component alone.                                            *)

goto(pc, sleep) == main_pc' = pc /\ main_sleep' = sleep

(* Seeded fault: main's record is not brought up to date. *)
pause_strollers_unrecorded ==
  /\ walk_pause_thd
  /\ avoid_obstacles_pause_thd
  /\ UNCHANGED <<tavern_threads_resumed, walk_thd_is_created, walkThread,
                 avoid_thd_is_created, avoidThread>>

pause_strollers ==
  /\ walk_pause_thd
  /\ avoid_obstacles_pause_thd
  /\ tavern_threads_resumed' = FALSE
  /\ UNCHANGED <<walk_thd_is_created, walkThread, avoid_thd_is_created, avoidThread>>

resume_strollers ==
  /\ walk_resume_thd
  /\ avoid_obstacles_resume_thd
  /\ tavern_threads_resumed' = TRUE
  /\ UNCHANGED <<walk_thd_is_created, walkThread, avoid_thd_is_created, avoidThread>>

strollersUnchanged == UNCHANGED <<tavern_threads_resumed, walkVars, avoidVars>>

(* The threads are created and paused.                                     *)
main_boot ==
  /\ main_pc = "boot"
  /\ ProcessImage_start_and_pause
  /\ walk_start_and_pause
  /\ avoid_obstacles_start_and_pause
  /\ goto("loop", POLL)
  /\ UNCHANGED <<tavern_threads_resumed, thirsty, beer_time, music_to_play, color_mode,
                 scanLife, scanLocals, beerVars, pidVars>>

(* The first reading of the selector; tavern_phase up to its loop.         *)
EnterTavern ==
  /\ main_pc = "loop"
  /\ selector = "TAVERN"
  /\ IF tavern_threads_resumed
     THEN strollersUnchanged /\ UNCHANGED music_to_play
     ELSE resume_strollers /\ music_to_play' = "TAVERN_SONG"
  /\ thirsty' = TRUE
  /\ goto("stroll", POLL)
  /\ UNCHANGED <<beer_time, missionVars>>

NotTavern ==
  /\ main_pc = "loop"
  /\ selector # "TAVERN"
  /\ goto("loop2", POLL)
  /\ strollersUnchanged
  /\ UNCHANGED <<thirsty, beer_time, music_to_play, missionVars>>

(* One turn of the loop of tavern_phase.                                   *)
BeerTime == IF beer_time = Unset \/ ~thirsty THEN 0 ELSE beer_time

Stroll ==
  /\ main_pc = "stroll"
  /\ selector = "TAVERN"
  /\ BeerTime <= TIMEOUR_BEER_STROLL
  /\ beer_time' = BeerTime
  /\ goto("stroll", POLL)
  /\ strollersUnchanged
  /\ UNCHANGED <<thirsty, music_to_play, missionVars>>

GetThirsty ==
  /\ main_pc = "stroll"
  /\ selector = "TAVERN"
  /\ BeerTime > TIMEOUR_BEER_STROLL
  /\ beer_time' = BeerTime
  /\ thirsty' = TRUE
  /\ pause_strollers
  /\ set_color_mode("NOIR")
  /\ scan_start
  /\ goto("beerScan", POLL)
  /\ UNCHANGED <<music_to_play, scanLocals, imageFlags, beerVars, pidVars>>

BarFound ==
  /\ main_pc = "beerScan"
  /\ good_color
  /\ beer_start
  /\ goto("beerWait", POLL)
  /\ strollersUnchanged
  /\ UNCHANGED <<thirsty, beer_time, music_to_play, scanVars, beer_dist, pidVars>>

(* Seeded fault: the strollers are not resumed after the beer. *)
BackToStrollPaused ==
  /\ main_pc = "beerWait"
  /\ beer_gotten
  /\ thirsty' = FALSE
  /\ strollersUnchanged
  /\ goto("stroll", POLL)
  /\ UNCHANGED <<beer_time, music_to_play, missionVars>>

BackToStroll ==
  /\ main_pc = "beerWait"
  /\ beer_gotten
  /\ thirsty' = FALSE
  /\ IF tavern_threads_resumed THEN strollersUnchanged ELSE resume_strollers
  /\ goto("stroll", POLL)
  /\ UNCHANGED <<beer_time, music_to_play, missionVars>>

LeaveTavern ==
  /\ main_pc = "stroll"
  /\ selector # "TAVERN"
  /\ goto("refresh", TAVERN_REFRESH)
  /\ strollersUnchanged
  /\ UNCHANGED <<thirsty, beer_time, music_to_play, missionVars>>

Refreshed ==
  /\ main_pc = "refresh"
  /\ main_sleep = 0
  /\ goto("loop", POLL)
  /\ strollersUnchanged
  /\ UNCHANGED <<thirsty, beer_time, music_to_play, missionVars>>

(* The second reading of the selector; tracking_phase up to its first      *)
(* waiting loop.                                                           *)
EnterHunt ==
  /\ main_pc = "loop2"
  /\ selector = "HUNT"
  /\ pause_strollers
  /\ set_color_mode("ROUGE")
  /\ music_to_play' = "RADAR_SONG"
  /\ scan_start
  /\ goto("huntScan", POLL)
  /\ UNCHANGED <<thirsty, beer_time, scanLocals, imageFlags, beerVars, pidVars>>

EnemyFound ==
  /\ main_pc = "huntScan"
  /\ good_color
  /\ music_to_play' = "ENEMY_DETECTION_SONG"
  /\ goto("alert", TRANSITION_SONG_DURATION)
  /\ strollersUnchanged
  /\ UNCHANGED <<thirsty, beer_time, missionVars>>

Pursue ==
  /\ main_pc = "alert"
  /\ main_sleep = 0
  /\ music_to_play' = "PURSUIT_SONG"
  /\ pid_distance_start
  /\ goto("pursuit", POLL)
  /\ strollersUnchanged
  /\ UNCHANGED <<thirsty, beer_time, scanVars, beerVars, stable_time>>

EnemyHit ==
  /\ main_pc = "pursuit"
  /\ is_done
  /\ music_to_play' = "VICTORY_SONG"
  /\ goto("victory", TRANSITION_SONG_DURATION)
  /\ strollersUnchanged
  /\ UNCHANGED <<thirsty, beer_time, missionVars>>

(* Seeded fault: the victory song is not waited for. *)
CelebratedAtOnce ==
  /\ main_pc = "victory"
  /\ music_to_play' = "NO_SONG"
  /\ goto("hold", POLL)
  /\ strollersUnchanged
  /\ UNCHANGED <<thirsty, beer_time, missionVars>>

Celebrated ==
  /\ main_pc = "victory"
  /\ main_sleep = 0
  /\ music_to_play' = "NO_SONG"
  /\ goto("hold", POLL)
  /\ strollersUnchanged
  /\ UNCHANGED <<thirsty, beer_time, missionVars>>

LeaveHunt ==
  /\ main_pc = "hold"
  /\ ~(selector = "HUNT" /\ is_done)
  /\ goto("loop", POLL)
  /\ strollersUnchanged
  /\ UNCHANGED <<thirsty, beer_time, music_to_play, missionVars>>

(* Neither position: back to a robot that does nothing.                    *)
reinit ==
  /\ main_pc = "loop2"
  /\ selector # "HUNT"
  /\ music_to_play' = "NO_SONG"
  /\ pause_strollers
  /\ stop_beer
  /\ stop_scan
  /\ stop_pid
  /\ goto("loop", POLL)
  /\ UNCHANGED <<thirsty, beer_time, color_mode, scanLocals, imageFlags, beer_dist,
                 stable_time>>

(* A waiting loop finds its condition not met yet and sleeps 100 ms more.  *)
MainWaiting ==
  \/ main_pc = "beerScan" /\ ~good_color
  \/ main_pc = "beerWait" /\ ~beer_gotten
  \/ main_pc = "huntScan" /\ ~good_color
  \/ main_pc = "pursuit" /\ ~is_done
  \/ main_pc = "hold" /\ selector = "HUNT" /\ is_done

KeepWaiting ==
  /\ MainWaiting
  /\ goto(main_pc, POLL)
  /\ strollersUnchanged
  /\ UNCHANGED <<thirsty, beer_time, music_to_play, missionVars>>

tavern_phase == EnterTavern \/ Stroll \/ GetThirsty \/ BarFound \/ BackToStroll
                \/ LeaveTavern
tracking_phase == EnterHunt \/ EnemyFound \/ Pursue \/ EnemyHit \/ Celebrated
                  \/ LeaveHunt

main ==
  /\ main_boot \/ NotTavern \/ tavern_phase \/ Refreshed \/ tracking_phase \/ reinit
     \/ KeepWaiting
  /\ UNCHANGED <<selector, motor>>

-----------------------------------------------------------------------------
(* Everything that can happen.                                             *)

otherThan(rest) == UNCHANGED <<selector, mainVars, rest>>

WalkStep  == thd_walk /\ otherThan(<<avoidVars, missionVars>>)
AvoidStep == avoid_obstacles /\ otherThan(<<walkVars, missionVars>>)
ScanStep  == ScanThread /\ otherThan(<<walkVars, avoidVars, beerVars, pidVars>>)
BeerStep  == BeerThread /\ otherThan(<<walkVars, avoidVars, scanVars, pidVars>>)
PidStep   == PidThread /\ otherThan(<<walkVars, avoidVars, scanVars, beerVars>>)

MoveSelector ==
  /\ selector' \in Position \ {selector}
  /\ UNCHANGED <<mainVars, motor, walkVars, avoidVars, missionVars>>

Tick ==
  /\ main_sleep > 0
  /\ WalkWaits /\ AvoidWaits /\ ScanWaits /\ BeerWaits /\ PidWaits
  /\ main_sleep' = Remaining(main_sleep)
  /\ beer_time' = IF beer_time = Unset THEN Unset
                  ELSE Older(beer_time, TIMEOUR_BEER_STROLL)
  /\ WalkElapse /\ AvoidElapse /\ ScanElapse /\ BeerElapse /\ PidElapse
  /\ UNCHANGED <<selector, main_pc, tavern_threads_resumed, thirsty, music_to_play, motor>>

Next ==
  \/ main \/ WalkStep \/ AvoidStep \/ ScanStep \/ BeerStep \/ PidStep
  \/ MoveSelector \/ Tick

Spec == Init /\ [][Next]_vars

(* The scheduler is round robin among equals and preemptive above them, no *)
(* thread keeps the processor for ever, and time goes on.                  *)
Fairness ==
  /\ WF_vars(main) /\ WF_vars(WalkStep) /\ WF_vars(AvoidStep)
  /\ WF_vars(ScanStep) /\ WF_vars(BeerStep) /\ WF_vars(PidStep)
  /\ WF_vars(Tick)

FairSpec == Spec /\ Fairness
-----------------------------------------------------------------------------
(* Safety.                                                                 *)

Strollers == walk_is_paused /\ avoid_is_paused

(* Only one of the three missions is at the wheel: the scan is over before *)
(* the beer or the pursuit that it leads to begins, and these are over     *)
(* before the next scan (scan.c, beer.c and pid_distance.c each drive the  *)
(* motors without asking).                                                 *)
MissionExclusive ==
  /\ ~(ScanDrives /\ BeerDrives)
  /\ ~(ScanDrives /\ PidDrives)
  /\ ~(BeerDrives /\ PidDrives)

(* When main starts a mission, it gets a new thread, and the thread that   *)
(* last ran in the same static working area has left it: the start is not  *)
(* ignored because of a flag still set, nor done on a stack still in use   *)
(* (scan_start, beer_start, pid_distance_start).                           *)
MissionStartsAfresh ==
  [][main_pc' # main_pc =>
       /\ main_pc' \in {"beerScan", "huntScan"} => scan_pc = "dead" /\ scan_pc' = "poll"
       /\ main_pc' = "beerWait" => beer_pc = "dead" /\ beer_pc' = "poll"
       /\ main_pc' = "pursuit" => pid_pc = "dead" /\ pid_pc' = "poll"]_vars

(* main goes for a beer, or for the enemy, only on a scan that saw the     *)
(* colour it asked for: no verdict of an earlier scan is taken for it      *)
(* (get_good_color is polled from another thread than the one that sets    *)
(* it, and reset only by a start that is not ignored).                     *)
VerdictIsForThisScan ==
  /\ main_pc = "beerWait" => color_scanned = "NOIR"
  /\ main_pc \in {"alert", "pursuit", "victory", "hold"} => color_scanned = "ROUGE"

(* The stop functions reinit calls never find a thread to stop: their      *)
(* flags are raised only when the missions are over, so that the branch    *)
(* on must_stop of each thread is dead code in this program.               *)
StopsFindNobody ==
  /\ scan_must_stop => scan_pc = "dead"
  /\ beer_must_stop => beer_pc = "dead"
  /\ pid_must_stop => pid_pc = "dead"

(* main's local record of whether walk and avoid_obstacles are resumed is  *)
(* right whichever way the selector was turned, and both are paused while  *)
(* a mission drives.                                                       *)
StrollersPausedOnMission ==
  /\ main_pc # "boot" =>
       /\ tavern_threads_resumed <=> ~walk_is_paused
       /\ tavern_threads_resumed <=> ~avoid_is_paused
  /\ ScanDrives \/ BeerDrives \/ PidDrives => Strollers

(* The tavern is never without its song, although the song is asked for    *)
(* only when the strollers are resumed by tavern_phase's first lines.      *)
TavernHasItsSong ==
  main_pc \in {"stroll", "beerScan", "beerWait", "refresh"}
    => music_to_play = "TAVERN_SONG"

(* Nobody driving, the wheels stand still: whoever wrote to the motors     *)
(* last, in whatever order the threads gave them up, stopped them.         *)
NobodyDrives ==
  /\ walk_pc \notin {"turn", "segment"}
  /\ avoid_pc \notin {"turning", "leaving"}
  /\ scan_pc \notin {"poll", "approach", "retreat", "turnaway"}
  /\ beer_pc \notin {"approach", "retreat"}
  /\ ~PidDrives

IdleMeansStill == NobodyDrives => motor.left = 0 /\ motor.right = 0

(* A pause does not interrupt a butterfly, which may go on into the        *)
(* pursuit; but the two songs outlast it, and once main holds, the walk    *)
(* has come to its end.                                                    *)
WalkEndsBeforeHold == main_pc = "hold" => walk_pc = "poll"

-----------------------------------------------------------------------------
(* Liveness, under FairSpec.                                               *)

(* A walk that stays paused comes to rest.                                 *)
PausedWalkRests == <>[]walk_is_paused => <>[](walk_pc = "poll")

(* A found object leads to the beer or to the pursuit.                     *)
FindingIsUsed == scan_pc = "found" ~> main_pc \in {"beerWait", "pursuit"}

(* Once the robot drives up to the bar it drinks, and strolls again.       *)
BeerEndsInStroll ==
  beer_pc = "approach" ~> main_pc = "stroll" /\ ~walk_is_paused /\ ~avoid_is_paused

(* Once the robot strikes, it celebrates and its pursuit thread ends.      *)
StrikeEndsHunt == pid_pc = "strike" ~> main_pc = "hold" /\ pid_pc = "dead"
=============================================================================
