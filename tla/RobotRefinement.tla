-------------------------- MODULE RobotRefinement ---------------------------
(***************************************************************************)
(* The threads of module Robot implement the protocol of module            *)
(* MissionProtocol.  The refinement mapping reads the phase of the errand  *)
(* off main's place and the results the missions leave for it, and who is  *)
(* driving off the places of the missions' own threads.                    *)
(***************************************************************************)
EXTENDS Robot

errandPhase ==
  CASE main_pc \in {"beerScan", "huntScan"} ->
         IF good_color THEN "sighted" ELSE "seeking"
    [] main_pc = "alert" -> "sighted"
    [] main_pc = "beerWait" -> IF beer_gotten THEN "served" ELSE "fetching"
    [] main_pc = "pursuit" -> IF is_done THEN "struck" ELSE "chasing"
    [] main_pc = "victory" -> "struck"
    [] OTHER -> "free"

atTheWheel ==
  (IF ScanDrives THEN {"scan"} ELSE {}) \cup
  (IF BeerDrives THEN {"beer"} ELSE {}) \cup
  (IF PidDrives THEN {"pid"} ELSE {})

mayStroll ==
  \/ walk_thd_is_created /\ ~walk_is_paused
  \/ avoid_thd_is_created /\ ~avoid_is_paused

Protocol == INSTANCE MissionProtocol WITH
  phase <- errandPhase,
  driving <- atTheWheel,
  wanted <- color_mode,
  strolling <- mayStroll

(* The six threads, whatever their order, keep the protocol: one mission   *)
(* at the wheel, the right one for the colour that was asked for and seen, *)
(* begun when its predecessor has let go and ended before its successor.   *)
KeepsProtocol == Protocol!Spec
=============================================================================
