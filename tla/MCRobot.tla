------------------------------- MODULE MCRobot ------------------------------
(***************************************************************************)
(* Robot with the constants of small instances: MCRobot*.cfg.              *)
(***************************************************************************)
EXTENDS RobotInvariant, RobotRefinement

(* An object in range, from which the robot keeps off; and nothing.  The   *)
(* distance of nothing, measured between two readings of one test, wraps.  *)
NearOrNothing == {3, 9}
NearOnly == {3}

NoObstacle == {{}}
SomeObstacles == {{}, {2}, {0, 3}}
=============================================================================
