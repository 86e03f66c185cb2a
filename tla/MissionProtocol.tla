-------------------------- MODULE MissionProtocol ---------------------------
(***************************************************************************)
(* What main.c promises about the missions, without threads, flags or      *)
(* time: an object of the colour asked for is sought, a sighting leads to  *)
(* the one mission that colour is for, that mission alone drives, and the  *)
(* robot strolls again, or seeks again, only when it is over.  Module      *)
(* RobotRefinement shows that the threads of module Robot keep it.         *)
(***************************************************************************)
VARIABLES
  phase,      (* how far the robot is in its errand                        *)
  driving,    (* the missions that may be moving the wheels                *)
  wanted,     (* the colour the errand is about                            *)
  strolling   (* walk.c or avoid_obstacles.c may begin to move the wheels  *)

protocolVars == <<phase, driving, wanted, strolling>>

Phase == {"free", "seeking", "sighted", "fetching", "served", "chasing", "struck"}

Init ==
  /\ phase = "free"
  /\ driving = {}
  /\ wanted = "AUTRE"
  /\ strolling = FALSE

step(from, to) == phase = from /\ phase' = to

(* Turning the selector makes the robot stroll or rest, between errands.   *)
StrollOrRest ==
  /\ step("free", "free")
  /\ strolling' \in BOOLEAN
  /\ UNCHANGED <<driving, wanted>>

(* The strollers have been told to stop when the scan takes the wheel.     *)
Seek(color) ==
  /\ step("free", "seeking")
  /\ driving = {}
  /\ driving' = {"scan"}
  /\ wanted' = color
  /\ strolling' = FALSE

Sight ==
  /\ step("seeking", "sighted")
  /\ driving = {"scan"}
  /\ driving' = {}
  /\ UNCHANGED <<wanted, strolling>>

(* A sighting is acted on once the scan has let go of the wheel.           *)
ActOn(color, errand, mission) ==
  /\ step("sighted", errand)
  /\ wanted = color
  /\ driving = {}
  /\ driving' = {mission}
  /\ UNCHANGED <<wanted, strolling>>

Fetch == ActOn("NOIR", "fetching", "beer")
Chase == ActOn("ROUGE", "chasing", "pid")

Serve ==
  /\ step("fetching", "served")
  /\ driving = {"beer"}
  /\ driving' = {}
  /\ UNCHANGED <<wanted, strolling>>

StrollAgain ==
  /\ step("served", "free")
  /\ driving = {}
  /\ strolling' = TRUE
  /\ UNCHANGED <<driving, wanted>>

(* The victory is told before the sword stroke, which still drives ...     *)
Strike ==
  /\ step("chasing", "struck")
  /\ UNCHANGED <<driving, wanted, strolling>>

LowerTheSword ==
  /\ step("struck", "struck")
  /\ driving = {"pid"}
  /\ driving' = {}
  /\ UNCHANGED <<wanted, strolling>>

(* ... and celebrated to its end after it.                                 *)
EndOfHunt ==
  /\ step("struck", "free")
  /\ driving = {}
  /\ UNCHANGED <<driving, wanted, strolling>>

Next ==
  \/ StrollOrRest
  \/ \E color \in {"NOIR", "ROUGE"} : Seek(color)
  \/ Sight \/ Fetch \/ Serve \/ StrollAgain
  \/ Chase \/ Strike \/ LowerTheSword \/ EndOfHunt

Spec == Init /\ [][Next]_protocolVars
=============================================================================
