---------------------------- MODULE MCOpenMissions --------------------------
(***************************************************************************)
(* Small instances of OpenMissions and of Scheduler, in one run: they      *)
(* share no variable, and `part` says which of the two a behaviour is      *)
(* about; the other stays as it was initialised.                           *)
(***************************************************************************)
EXTENDS OpenMissions, Scheduler

(* An object too near, one to back off from, one to approach; and nothing. *)
FourDistances == {0, 1, 3, 9}

(* Of the idle thread, of NORMALPRIO, and of those 8 and 10 above it.      *)
Priorities ==
  [t \in {"idle", "main", "Scan", "thd_walk", "proximity_thd", "avoid_obstacles", "VL53L0X"} |->
     CASE t = "idle" -> 1 [] t = "avoid_obstacles" -> 72 [] t = "VL53L0X" -> 74
       [] OTHER -> 64]

VARIABLE part

smallVars == <<part, openVars, schedulerVars>>

SmallInit ==
  /\ part \in {"missions", "scheduler"}
  /\ OpenInit /\ (part = "missions" \/ mission = "scan")
  /\ SchedulerInit

MissionsRun == part = "missions" /\ OpenNext /\ UNCHANGED <<part, schedulerVars>>
SchedulerRuns == part = "scheduler" /\ SchedulerNext /\ UNCHANGED <<part, openVars>>

SmallSpec ==
  /\ SmallInit /\ [][MissionsRun \/ SchedulerRuns]_smallVars
  /\ part = "missions" => OpenFairness
  /\ part = "scheduler" => SchedulerFairness

(* EveryPeerRuns, said of the scheduler. *)
PartRunsEveryPeer == part = "scheduler" => EveryPeerRuns
=============================================================================
