-------------------------------- MODULE Peers -------------------------------
(***************************************************************************)
(* Threads of one priority on one processor, as chschd.c of ChibiOS/RT     *)
(* runs them: one that becomes ready goes behind its peers in the ready    *)
(* list (chSchReadyI), the first is dispatched when the one that runs      *)
(* blocks (chSchGoSleepS), with a whole quantum of 20 ms before it.  The   *)
(* threads of this application then go on until they block, in less time   *)
(* than that; modules that extend this one have the steps a thread makes   *)
(* between two blocking calls as actions of their own.  Module Scheduler   *)
(* derives these rules, and the exceptions to them, from the kernel.       *)
(***************************************************************************)
EXTENDS Sequences

VARIABLES
  running,   (* the thread that has the processor, or Nobody *)
  ready      (* the threads that wait for it, first come first *)

peerVars == <<running, ready>>

Nobody == "nobody"

(* The thread that runs goes on ...                                        *)
GoesOn == UNCHANGED peerVars

(* ... making another one ready (chSchReadyI) ...                          *)
GoesOnWaking(thread) ==
  /\ ready' = Append(ready, thread)
  /\ UNCHANGED running

(* ... or it blocks (chSchGoSleepS), having made some others ready.        *)
BlocksWaking(threads) ==
  /\ running' = Nobody
  /\ ready' = ready \o threads

Blocks == BlocksWaking(<<>>)

(* A timer or another interrupt makes a thread ready, whoever runs.        *)
Awakens(thread) == GoesOnWaking(thread)

Dispatch ==
  /\ running = Nobody
  /\ ready # <<>>
  /\ running' = Head(ready)
  /\ ready' = Tail(ready)
=============================================================================
