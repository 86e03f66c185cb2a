-------------------------------- MODULE Beer --------------------------------
(***************************************************************************)
(* beer.c: the thread that drives up to the bar, waits to be served and    *)
(* drives back; and the functions that start, stop and question it.        *)
(***************************************************************************)
EXTENDS Platform

CONSTANTS
  BAR_DIST,   (* where the robot stops in front of the bar *)
  BEER_WAIT   (* ticks it takes to be served               *)

ASSUME BeerAssumption ==
  /\ BAR_DIST \in Nat
  /\ BEER_WAIT \in Nat \ {0}

VARIABLES
  beer_gotten,    (* what get_beer_served returns *)
  beer_must_stop, beer_thd_exist,
  beer_pc,        (* where Beer is *)
  beer_sleep,
  beer_dist       (* its local dist_approach *)

beerLife == <<beer_gotten, beer_must_stop, beer_thd_exist, beer_pc, beer_sleep>>
beerVars == <<beerLife, beer_dist>>

BeerTypeOK ==
  /\ beer_gotten \in BOOLEAN
  /\ beer_must_stop \in BOOLEAN
  /\ beer_thd_exist \in BOOLEAN
  /\ beer_pc \in {"dead", "poll", "approach", "drink", "retreat", "served", "exit"}
  /\ beer_sleep \in Nat
  /\ beer_dist \in Int

BeerInit ==
  /\ beer_gotten = FALSE
  /\ beer_must_stop = FALSE
  /\ beer_thd_exist = FALSE
  /\ beer_pc = "dead"
  /\ beer_sleep = 0
  /\ beer_dist = 0

-----------------------------------------------------------------------------
(* beer.h.                                                                 *)

beer_start ==
  IF beer_thd_exist
  THEN UNCHANGED beerLife
  ELSE /\ beer_thd_exist' = TRUE
       /\ beer_must_stop' = FALSE
       /\ beer_gotten' = FALSE
       /\ beer_pc' = "poll"
       /\ beer_sleep' = POLL

stop_beer ==
  /\ beer_must_stop' = TRUE
  /\ UNCHANGED <<beer_gotten, beer_thd_exist, beer_pc, beer_sleep>>

-----------------------------------------------------------------------------
(* The thread.                                                             *)

(* Seeded fault: the request is taken off, and the thread goes on. *)
BeerStopUnheeded ==
  /\ beer_pc = "poll"
  /\ beer_must_stop
  /\ beer_must_stop' = FALSE
  /\ beer_sleep' = POLL
  /\ UNCHANGED <<beer_gotten, beer_thd_exist, beer_pc, beer_dist, motor>>

BeerStop ==
  /\ beer_pc = "poll"
  /\ beer_must_stop
  /\ beer_must_stop' = FALSE
  /\ beer_thd_exist' = FALSE
  /\ beer_pc' = "exit"
  /\ beer_sleep' = 0
  /\ UNCHANGED <<beer_gotten, beer_dist, motor>>

BarInReach(d) == d < MAX_SCAN_DIST /\ d > MIN_SCAN_DIST

BeerLook ==
  /\ beer_pc = "poll"
  /\ ~beer_must_stop
  /\ \E d \in Dist : beer_dist' = d - BAR_DIST /\ ~BarInReach(d - BAR_DIST)
  /\ beer_sleep' = POLL
  /\ UNCHANGED <<beer_gotten, beer_must_stop, beer_thd_exist, beer_pc, motor>>

BeerApproach ==
  /\ beer_pc = "poll"
  /\ ~beer_must_stop
  /\ \E d \in Dist : beer_dist' = d - BAR_DIST /\ BarInReach(d - BAR_DIST)
  /\ approach_move("beer", beer_dist')
  /\ beer_pc' = "approach"
  /\ beer_sleep' = approach_time(beer_dist')
  /\ UNCHANGED <<beer_gotten, beer_must_stop, beer_thd_exist>>

BeerOrder ==
  /\ beer_pc = "approach"
  /\ beer_sleep = 0
  /\ set_speeds("beer", 0, 0)
  /\ beer_pc' = "drink"
  /\ beer_sleep' = BEER_WAIT
  /\ UNCHANGED <<beer_gotten, beer_must_stop, beer_thd_exist, beer_dist>>

BeerRetreat ==
  /\ beer_pc = "drink"
  /\ beer_sleep = 0
  /\ approach_move("beer", -beer_dist)
  /\ beer_pc' = "retreat"
  /\ beer_sleep' = approach_time(-beer_dist)
  /\ UNCHANGED <<beer_gotten, beer_must_stop, beer_thd_exist, beer_dist>>

BeerServed ==
  /\ beer_pc = "retreat"
  /\ beer_sleep = 0
  /\ set_speeds("beer", 0, 0)
  /\ beer_gotten' = TRUE
  /\ beer_pc' = "served"
  /\ UNCHANGED <<beer_must_stop, beer_thd_exist, beer_sleep, beer_dist>>

BeerClear ==
  /\ beer_pc = "served"
  /\ beer_thd_exist' = FALSE
  /\ beer_pc' = "exit"
  /\ UNCHANGED <<beer_gotten, beer_must_stop, beer_sleep, beer_dist, motor>>

BeerExit ==
  /\ beer_pc = "exit"
  /\ beer_pc' = "dead"
  /\ UNCHANGED <<beer_gotten, beer_must_stop, beer_thd_exist, beer_sleep, beer_dist,
                 motor>>

BeerThread ==
  \/ BeerStop \/ BeerLook \/ BeerApproach \/ BeerOrder
  \/ BeerRetreat \/ BeerServed \/ BeerClear \/ BeerExit

BeerWaits == beer_pc = "dead" \/ beer_sleep > 0

BeerElapse ==
  /\ beer_sleep' = Remaining(beer_sleep)
  /\ UNCHANGED <<beer_gotten, beer_must_stop, beer_thd_exist, beer_pc, beer_dist>>

(* The thread may be driving the robot. *)
BeerDrives == beer_pc \notin {"dead", "served", "exit"}
=============================================================================
