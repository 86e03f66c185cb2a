------------------------------ MODULE Proximity -----------------------------
(***************************************************************************)
(* The proximity sensors from the pulses of light to the message that      *)
(* avoid_obstacles reads: sensors/proximity.c, the topic "/proximity" of   *)
(* msgbus/messagebus.c, and the calls of avoid_obstacles.c.                *)
(*                                                                         *)
(* Two threads: proximity_thd at NORMALPRIO, avoid_obstacles at            *)
(* NORMALPRIO+8, which therefore runs whenever it can.  The timer and the  *)
(* converter interrupt both.  The topic's buffer is prox_values itself,    *)
(* which proximity_thd writes without the topic's lock.                    *)
(***************************************************************************)
EXTENDS Integers

CONSTANTS
  SAMPLES,    (* measurements that a calibration averages                *)
  ROUND       (* bound: measurements are told apart modulo this          *)

ASSUME ProximityAssumption ==
  /\ SAMPLES \in Nat \ {0}
  /\ ROUND \in Nat \ {0, 1}

VARIABLES
  pulseSeqState, trigger,      (* where the timer and the converter are in   *)
                               (* their rounds of eight periods              *)
  lit,                         (* history: the samples of this round were    *)
                               (* taken in their own light so far            *)
  adc2_values, adc2_ready,     (* the last measurement, and its semaphore    *)
  prox_values,                 (* the measurements its fields are of         *)
  prox_pc,
  topic_lock,                  (* who holds it, or Nobody_holds              *)
  advertised,
  calibrationInProgress, calibrationState,
  calibrationSum,              (* samples summed, and whether one was Unlit  *)
  initValue,                   (* "none", "clean" or "dirty"                 *)
  avoid_pc,
  message,                     (* avoid_obstacles' own prox_values           *)
  since                        (* history: published since its wait began    *)

lightVars == <<pulseSeqState, trigger, lit, adc2_values, adc2_ready>>
calibrationVars == <<calibrationInProgress, calibrationState, calibrationSum, initValue>>
topicVars == <<topic_lock, advertised>>
avoidVars == <<avoid_pc, message>>
proximityVars == <<lightVars, prox_values, prox_pc, topicVars, calibrationVars, avoidVars,
                   since>>

(* A measurement whose samples were not taken in their own light, and the  *)
(* others in turn.                                                         *)
Unlit == 0
Measurement == 0 .. ROUND
After(n) == (n % ROUND) + 1

Nothing == [ambient |-> Unlit, reflected |-> Unlit, delta |-> <<Unlit, Unlit>>]
Nobody_holds == "nobody"

ProximityTypeOK ==
  LET Values == [ambient : Measurement, reflected : Measurement,
                 delta : Measurement \X Measurement]
  IN  /\ pulseSeqState \in 0 .. 8 /\ trigger \in 0 .. 7
      /\ lit \in BOOLEAN /\ adc2_ready \in BOOLEAN /\ advertised \in BOOLEAN
      /\ adc2_values \in Measurement
      /\ prox_values \in Values /\ message \in Values
      /\ prox_pc \in {"advertise", "sem", "ambient", "reflected", "delta", "lock",
                      "publish", "unlock", "calibrate"}
      /\ topic_lock \in {Nobody_holds, "proximity_thd", "avoid_obstacles"}
      /\ calibrationInProgress \in BOOLEAN /\ calibrationState \in {0, 1}
      /\ calibrationSum \in [n : 0 .. SAMPLES, dirty : BOOLEAN]
      /\ initValue \in {"none", "clean", "dirty"}
      /\ avoid_pc \in {"calibrating", "find", "finding", "lock", "wait", "waiting",
                       "relock", "copy", "copying", "unlock", "sleep"}
      /\ since \subseteq Measurement \X Measurement

(* proximity_start and calibrate_ir, by avoid_obstacles before anyone of   *)
(* NORMALPRIO runs.                                                        *)
ProximityInit ==
  /\ pulseSeqState = 0 /\ trigger = 0 /\ lit = TRUE
  /\ adc2_values = Unlit /\ adc2_ready = FALSE
  /\ prox_values = Nothing
  /\ prox_pc = "advertise"
  /\ topic_lock = Nobody_holds
  /\ advertised = FALSE
  /\ calibrationInProgress = TRUE /\ calibrationState = 0
  /\ calibrationSum = [n |-> 0, dirty |-> FALSE]
  /\ initValue = "none"
  /\ avoid_pc = "calibrating"
  /\ message = Nothing
  /\ since = {}

-----------------------------------------------------------------------------
(* A period of the timer: pwm_reset_cb at its beginning, at 260 us the     *)
(* converter takes the samples of one pair of sensors, at 300 us pwm_ch1_cb*)
(* ends the pulse.  With the last pair adc_cb takes over the measurement.  *)

Off == 4

(* The pair of sensors that pwm_reset_cb lights. *)
Pulse == IF pulseSeqState \in {2, 4, 6, 8} THEN pulseSeqState \div 2 - 1 ELSE Off

pwm_reset_cb == IF pulseSeqState = 0 THEN 0 ELSE (pulseSeqState % 8) + 1

(* Odd samples are to be lit by the pulse of their own pair, even ones by  *)
(* none.                                                                   *)
Due == IF trigger % 2 = 1 THEN trigger \div 2 ELSE Off

pwm_period ==
  /\ trigger # 7
  /\ trigger' = trigger + 1
  /\ lit' = (lit /\ Pulse = Due)
  /\ pulseSeqState' = pwm_reset_cb
  /\ UNCHANGED <<adc2_values, adc2_ready, prox_values, prox_pc, topicVars, calibrationVars,
                 avoidVars, since>>

(* Seeded fault: the timer is not brought into step. *)
adc_cb_without_sync ==
  /\ trigger = 7
  /\ adc2_values' = IF lit /\ Pulse = Due THEN After(adc2_values) ELSE Unlit
  /\ adc2_ready' = TRUE
  /\ pulseSeqState' = pwm_reset_cb
  /\ trigger' = 0 /\ lit' = TRUE
  /\ UNCHANGED <<prox_values, prox_pc, topicVars, calibrationVars, avoidVars, since>>

adc_cb ==
  /\ trigger = 7
  /\ adc2_values' = IF lit /\ Pulse = Due THEN After(adc2_values) ELSE Unlit
  /\ adc2_ready' = TRUE
  /\ pulseSeqState' = 1
  /\ trigger' = 0 /\ lit' = TRUE
  /\ UNCHANGED <<prox_values, prox_pc, topicVars, calibrationVars, avoidVars, since>>

-----------------------------------------------------------------------------
(* avoid_obstacles has the higher priority.                                *)
AvoidCanRun ==
  \/ avoid_pc \in {"find", "wait", "copy", "copying", "unlock"}
  \/ avoid_pc \in {"lock", "relock"} /\ topic_lock = Nobody_holds

(* Seeded fault: the two threads have the same priority. *)
ProxRuns_peers(place) == prox_pc = place

ProxRuns(place) == prox_pc = place /\ ~AvoidCanRun

ProxGoes(place) == prox_pc' = place

(* messagebus_advertise_topic.                                             *)
prox_advertise ==
  /\ ProxRuns("advertise")
  /\ advertised' = TRUE
  /\ avoid_pc' = IF avoid_pc = "finding" THEN "find" ELSE avoid_pc
  /\ ProxGoes("sem")
  /\ UNCHANGED <<lightVars, prox_values, topic_lock, calibrationVars, message, since>>

prox_sem ==
  /\ ProxRuns("sem") /\ adc2_ready
  /\ adc2_ready' = FALSE
  /\ ProxGoes("ambient")
  /\ UNCHANGED <<pulseSeqState, trigger, lit, adc2_values, prox_values, topicVars,
                 calibrationVars, avoidVars, since>>

(* The fields of the buffer are written one after the other, while adc_cb  *)
(* may already bring the next measurement.                                 *)
prox_write ==
  /\ \/ /\ ProxRuns("ambient") /\ ProxGoes("reflected")
        /\ prox_values' = [prox_values EXCEPT !.ambient = adc2_values]
     \/ /\ ProxRuns("reflected") /\ ProxGoes("delta")
        /\ prox_values' = [prox_values EXCEPT !.reflected = adc2_values]
     \/ /\ ProxRuns("delta") /\ ProxGoes("lock")
        /\ prox_values' =
             [prox_values EXCEPT !.delta = <<prox_values.ambient, prox_values.reflected>>]
  /\ UNCHANGED <<lightVars, topicVars, calibrationVars, avoidVars, since>>

(* messagebus_topic_publish.                                               *)
prox_lock ==
  /\ ProxRuns("lock") /\ topic_lock = Nobody_holds
  /\ topic_lock' = "proximity_thd"
  /\ ProxGoes("publish")
  /\ UNCHANGED <<lightVars, prox_values, advertised, calibrationVars, avoidVars, since>>

(* The buffer is copied onto itself; a thread that waits is woken, and has *)
(* the lock to take again.                                                 *)
prox_publish ==
  /\ ProxRuns("publish")
  /\ since' = since \cup {prox_values.delta}
  /\ avoid_pc' = IF avoid_pc = "waiting" THEN "relock" ELSE avoid_pc
  /\ ProxGoes("unlock")
  /\ UNCHANGED <<lightVars, prox_values, topicVars, calibrationVars, message>>

prox_unlock ==
  /\ ProxRuns("unlock")
  /\ topic_lock' = Nobody_holds
  /\ ProxGoes("calibrate")
  /\ UNCHANGED <<lightVars, prox_values, advertised, calibrationVars, avoidVars, since>>

Tainted(delta) == Unlit \in {delta[1], delta[2]}

calibration_step ==
  IF calibrationState = 0
  THEN /\ calibrationState' = 1
       /\ calibrationSum' = [n |-> 0, dirty |-> FALSE]
       /\ UNCHANGED <<calibrationInProgress, initValue>>
  ELSE LET sum == [n |-> calibrationSum.n + 1,
                   dirty |-> calibrationSum.dirty \/ Tainted(prox_values.delta)]
       IN  /\ calibrationSum' = sum
           /\ calibrationInProgress' = (sum.n # SAMPLES)
           /\ initValue' = IF sum.n # SAMPLES THEN initValue
                           ELSE IF sum.dirty THEN "dirty" ELSE "clean"
           /\ UNCHANGED calibrationState

prox_calibrate ==
  /\ ProxRuns("calibrate")
  /\ IF calibrationInProgress THEN calibration_step ELSE UNCHANGED calibrationVars
  /\ ProxGoes("sem")
  /\ UNCHANGED <<lightVars, prox_values, topicVars, avoidVars, since>>

-----------------------------------------------------------------------------
(* avoid_obstacles.                                                        *)
AvoidGoes(from, place) == avoid_pc = from /\ avoid_pc' = place

(* calibrate_ir returns; its poll of 20 ms may come at any moment.         *)
avoid_calibrated ==
  /\ AvoidGoes("calibrating", "find")
  /\ ~calibrationInProgress
  /\ UNCHANGED <<lightVars, prox_values, prox_pc, topicVars, calibrationVars, message, since>>

(* Seeded fault: it waits for the broadcast before it looks. *)
avoid_find_waits ==
  /\ AvoidGoes("find", "finding")
  /\ UNCHANGED <<lightVars, prox_values, prox_pc, topicVars, calibrationVars, message, since>>

(* messagebus_find_topic_blocking.                                         *)
avoid_find ==
  /\ AvoidGoes("find", IF advertised THEN "lock" ELSE "finding")
  /\ UNCHANGED <<lightVars, prox_values, prox_pc, topicVars, calibrationVars, message, since>>

(* messagebus_topic_wait.                                                  *)
avoid_lock ==
  /\ topic_lock = Nobody_holds
  /\ AvoidGoes("lock", "wait") \/ AvoidGoes("relock", "copy")
  /\ topic_lock' = "avoid_obstacles"
  /\ UNCHANGED <<lightVars, prox_values, prox_pc, advertised, calibrationVars, message, since>>

(* Seeded fault: what is already in the buffer is taken, as by             *)
(* messagebus_topic_read.                                                  *)
avoid_wait_not ==
  /\ AvoidGoes("wait", "copy")
  /\ since' = {}
  /\ UNCHANGED <<lightVars, prox_values, prox_pc, topicVars, calibrationVars, message>>

(* The condition variable releases the lock.                               *)
avoid_wait ==
  /\ AvoidGoes("wait", "waiting")
  /\ topic_lock' = Nobody_holds
  /\ since' = {}
  /\ UNCHANGED <<lightVars, prox_values, prox_pc, advertised, calibrationVars, message>>

(* The copy of the buffer, in two halves.                                  *)
avoid_copy ==
  /\ \/ /\ AvoidGoes("copy", "copying")
        /\ message' = [prox_values EXCEPT !.delta = message.delta]
     \/ /\ AvoidGoes("copying", "unlock")
        /\ message' = [message EXCEPT !.delta = prox_values.delta]
  /\ UNCHANGED <<lightVars, prox_values, prox_pc, topicVars, calibrationVars, since>>

(* Then it sleeps, or during a manoeuvre waits for the next message; its  *)
(* copy of this one is used up.                                           *)
avoid_unlock ==
  /\ AvoidGoes("unlock", "sleep") \/ AvoidGoes("unlock", "lock")
  /\ topic_lock' = Nobody_holds
  /\ message' = Nothing
  /\ UNCHANGED <<lightVars, prox_values, prox_pc, advertised, calibrationVars, since>>

avoid_timer ==
  /\ AvoidGoes("sleep", "lock")
  /\ UNCHANGED <<lightVars, prox_values, prox_pc, topicVars, calibrationVars, message, since>>

-----------------------------------------------------------------------------
ProxThread ==
  \/ prox_advertise \/ prox_sem \/ prox_write \/ prox_lock \/ prox_publish
  \/ prox_unlock \/ prox_calibrate
AvoidThread ==
  avoid_find \/ avoid_lock \/ avoid_wait \/ avoid_copy \/ avoid_unlock

ProximityNext ==
  \/ pwm_period \/ adc_cb
  \/ ProxThread \/ AvoidThread \/ avoid_calibrated \/ avoid_timer

ProximitySpec == ProximityInit /\ [][ProximityNext]_proximityVars

(* The timers go on, and both threads get the processor: a measurement     *)
(* takes 10 ms, the step of a thread microseconds.                         *)
ProximityFairness ==
  /\ WF_proximityVars(pwm_period \/ adc_cb)
  /\ WF_proximityVars(ProxThread)
  /\ WF_proximityVars(AvoidThread)
  /\ WF_proximityVars(avoid_calibrated) /\ WF_proximityVars(avoid_timer)

ProximityFairSpec == ProximitySpec /\ ProximityFairness

-----------------------------------------------------------------------------
(* "Topics are atomic" (msgbus/README.md:11): the message that             *)
(* avoid_obstacles gets is of one publication, although proximity_thd      *)
(* writes the topic's buffer without the lock.  Only the priorities keep   *)
(* the two apart.                                                          *)
TopicIsAtomic ==
  avoid_pc = "unlock" => message.delta = <<message.ambient, message.reflected>>

(* messagebus_topic_wait gives a message published after it was called,    *)
(* never again the one that avoid_obstacles has acted on, for all that     *)
(* happens between the wait and its lock.                                  *)
WaitGivesNewMessage == avoid_pc = "unlock" => message.delta \in since

(* The first round of the converter, in which the timer does not light the *)
(* sensors yet, is not part of the calibration, and all others are taken   *)
(* in their own light: the two rounds stay in step (proximity.c:85).       *)
CalibrationIsClean == initValue # "dirty"

(* avoid_obstacles gets messages for ever: it is not left waiting for the  *)
(* calibration, the topic, its lock or a broadcast already made.           *)
MessagesComeIn == []<>(avoid_pc = "unlock")
=============================================================================
