---------------------------- MODULE ThreadsProofs ---------------------------
(***************************************************************************)
(* What the threads under the missions tell each other is neither torn nor *)
(* stale nor lost: proofs about module Proximity, for every number of      *)
(* samples that a calibration averages, and about module MelodyPlayer, for *)
(* all songs of any lengths.                                               *)
(***************************************************************************)
EXTENDS Proximity, MelodyPlayer, SequenceTheorems, TLAPS

-----------------------------------------------------------------------------
(* Module Proximity.                                                       *)

Values == [ambient : Measurement, reflected : Measurement,
           delta : Measurement \X Measurement]

(* The next measurement is one, and is not taken for an unlit one.         *)
LEMMA AfterTyped ==
  ASSUME NEW n \in Measurement
  PROVE  After(n) \in Measurement \ {Unlit}
<1>1. n \in Int /\ ROUND \in Nat \ {0}
  BY ProximityAssumption DEF Measurement
<1>2. n % ROUND \in 0 .. ROUND - 1
  BY <1>1, SMT
<1> QED
  BY <1>1, <1>2 DEF After, Measurement, Unlit

(* The pulse due is that of the pair being sampled, if both rounds are in  *)
(* step; the first of them has none.                                       *)
LEMMA InStep ==
  ASSUME trigger \in 0 .. 7, pulseSeqState = trigger + 1
  PROVE  Pulse = Due
BY DEF Pulse, Due, Off

(* The timer is idle until the converter has ended its first round, and is *)
(* in step with it from then on.                                           *)
LightInv ==
  /\ pulseSeqState # 0 => pulseSeqState = trigger + 1 /\ lit
  /\ pulseSeqState = 0 => /\ calibrationState = 0 /\ ~adc2_ready
                          /\ prox_pc \in {"advertise", "sem"}

(* The measurement of that first round is used up when the calibration     *)
(* begins to sum.                                                          *)
MeasureInv ==
  /\ adc2_ready /\ (calibrationState = 1 \/ prox_pc \notin {"advertise", "sem"})
       => adc2_values # Unlit
  /\ calibrationState = 1 =>
       /\ prox_pc \in {"ambient", "reflected"} => adc2_values # Unlit
       /\ prox_pc \in {"reflected", "delta"} => prox_values.ambient # Unlit
       /\ prox_pc = "delta" => prox_values.reflected # Unlit
       /\ prox_pc \in {"lock", "publish", "unlock", "calibrate"}
            => ~Tainted(prox_values.delta)

SumInv == ~calibrationSum.dirty /\ initValue # "dirty"

CalibrationInv == LightInv /\ MeasureInv /\ SumInv

(* The topic's lock is held where the program says so ...                  *)
LockInv ==
  /\ topic_lock = "proximity_thd" <=> prox_pc \in {"publish", "unlock"}
  /\ topic_lock = "avoid_obstacles" <=> avoid_pc \in {"wait", "copy", "copying", "unlock"}

(* ... but it is by its priority that avoid_obstacles gets a whole message, *)
(* once it is woken: proximity_thd does not get to its next turn before.   *)
MessageInv ==
  /\ prox_pc \notin {"reflected", "delta"} =>
       prox_values.delta = <<prox_values.ambient, prox_values.reflected>>
  /\ avoid_pc = "relock" => prox_pc \in {"unlock", "calibrate"}
  /\ avoid_pc \in {"copy", "copying", "unlock"} => prox_pc = "calibrate"
  /\ avoid_pc \in {"relock", "copy", "copying", "unlock"} => prox_values.delta \in since
  /\ avoid_pc = "copying" => /\ message.ambient = prox_values.ambient
                             /\ message.reflected = prox_values.reflected
  /\ avoid_pc = "unlock" => message = prox_values

TopicInv == LockInv /\ MessageInv

(* The calibration stops summing at its last sample. *)
StillSumming == calibrationInProgress => calibrationSum.n < SAMPLES

SensorsInv == ProximityTypeOK /\ StillSumming

(* What a calibration starts from. *)
LEMMA EmptySum ==
  /\ [n |-> 0, dirty |-> FALSE] \in [n : 0 .. SAMPLES, dirty : BOOLEAN]
  /\ [n |-> 0, dirty |-> FALSE].n < SAMPLES
<1>1. 0 \in 0 .. SAMPLES /\ 0 < SAMPLES
  BY ProximityAssumption
<1> QED BY <1>1

(* The types, at the reset.                                                *)
LEMMA SensorsStart == ProximityInit => SensorsInv
<1> USE DEF SensorsInv, ProximityTypeOK, StillSumming
<1>1. Unlit \in Measurement
  BY ProximityAssumption DEF Unlit, Measurement
<1>2. Nothing \in Values
  BY <1>1 DEF Nothing, Values
<1> SUFFICES ASSUME ProximityInit PROVE SensorsInv
  OBVIOUS
<1>3. calibrationSum \in [n : 0 .. SAMPLES, dirty : BOOLEAN] /\ calibrationSum.n < SAMPLES
  BY EmptySum DEF ProximityInit
<1>4. prox_values \in Values /\ message \in Values
  BY <1>2 DEF ProximityInit
<1>5. /\ lit \in BOOLEAN /\ adc2_ready \in BOOLEAN /\ advertised \in BOOLEAN
      /\ calibrationInProgress \in BOOLEAN
  BY Zenon DEF ProximityInit
<1>6. /\ pulseSeqState = 0 /\ trigger = 0 /\ calibrationState = 0 /\ adc2_values = Unlit
  BY DEF ProximityInit
<1>7. /\ prox_pc = "advertise" /\ topic_lock = Nobody_holds /\ initValue = "none"
      /\ avoid_pc = "calibrating" /\ since \subseteq Measurement \X Measurement
  BY DEF ProximityInit
<1> QED
  BY <1>1, <1>3, <1>4, <1>5, <1>6, <1>7 DEF Values, Nobody_holds

(* Every step keeps the types.                                             *)
LEMMA SensorsStep == SensorsInv /\ [ProximityNext]_proximityVars => SensorsInv'
<1> USE DEF SensorsInv, ProximityTypeOK, StillSumming
<1> SUFFICES ASSUME SensorsInv, [ProximityNext]_proximityVars
             PROVE  SensorsInv'
  OBVIOUS
<1> USE DEF topicVars, calibrationVars, avoidVars, lightVars
<1>1. CASE pwm_period
  BY <1>1 DEF pwm_period, pwm_reset_cb
<1>2. CASE adc_cb
  <2>1. adc2_values' \in Measurement
    <3>1. Unlit \in Measurement
      BY ProximityAssumption DEF Unlit, Measurement
    <3> QED BY <1>2, <3>1, AfterTyped DEF adc_cb
  <2> QED BY <1>2, <2>1 DEF adc_cb
<1>3. CASE prox_advertise BY <1>3 DEF prox_advertise, ProxGoes
<1>4. CASE prox_sem
  <2>1. adc2_ready' \in BOOLEAN /\ prox_pc' = "ambient"
    BY <1>4 DEF prox_sem, ProxGoes
  <2>2. UNCHANGED <<pulseSeqState, trigger, lit, adc2_values, prox_values, topicVars,
                    calibrationVars, avoidVars, since>>
    BY <1>4, Zenon DEF prox_sem
  <2> QED BY <2>1, <2>2
<1>5. CASE prox_write     BY <1>5 DEF prox_write, ProxGoes
<1>6. CASE prox_lock      BY <1>6 DEF prox_lock, ProxGoes
<1>7. CASE prox_publish   BY <1>7 DEF prox_publish, ProxGoes
<1>8. CASE prox_unlock    BY <1>8 DEF prox_unlock, ProxGoes
<1>9. CASE prox_calibrate
  <2>1. ~calibrationInProgress => SensorsInv'
    BY <1>9 DEF prox_calibrate, ProxRuns, ProxGoes
  <2>2. calibrationInProgress /\ calibrationState = 0 => SensorsInv'
    BY <1>9, EmptySum
    DEF prox_calibrate, calibration_step, ProxRuns, ProxGoes
  <2>3. calibrationInProgress /\ calibrationState = 1 => SensorsInv'
    <3> SUFFICES ASSUME calibrationInProgress, calibrationState = 1 PROVE SensorsInv'
      OBVIOUS
    <3>1. calibrationSum.n + 1 \in 0 .. SAMPLES
      BY ProximityAssumption
    <3>2. (calibrationSum.dirty \/ Tainted(prox_values.delta)) \in BOOLEAN
      BY DEF Tainted
    <3> DEFINE sum == [n |-> calibrationSum.n + 1,
                       dirty |-> calibrationSum.dirty \/ Tainted(prox_values.delta)]
    <3>3. /\ calibrationSum' = sum
          /\ calibrationInProgress' = (sum.n # SAMPLES)
          /\ initValue' = IF sum.n # SAMPLES THEN initValue
                          ELSE IF sum.dirty THEN "dirty" ELSE "clean"
          /\ UNCHANGED calibrationState
      BY <1>9 DEF prox_calibrate, calibration_step
    <3>4. sum \in [n : 0 .. SAMPLES, dirty : BOOLEAN] /\ sum.n \in 0 .. SAMPLES
      BY <3>1, <3>2
    <3> HIDE DEF sum
    <3>5. calibrationSum' \in [n : 0 .. SAMPLES, dirty : BOOLEAN]
      BY <3>3, <3>4
    <3>6. sum.n # SAMPLES => sum.n < SAMPLES
      BY <3>4, ProximityAssumption
    <3>7. calibrationInProgress' => calibrationSum'.n < SAMPLES
      BY <3>3, <3>6
    <3>8. calibrationInProgress' \in BOOLEAN
      BY <3>3
    <3>9. initValue' \in {"none", "clean", "dirty"} /\ calibrationState' \in {0, 1}
      BY <3>3
    <3> QED BY <1>9, <3>5, <3>7, <3>8, <3>9 DEF prox_calibrate, ProxRuns, ProxGoes
  <2> QED BY <2>1, <2>2, <2>3
<1>10. CASE avoid_find    BY <1>10 DEF avoid_find, AvoidGoes
<1>11. CASE avoid_lock    BY <1>11 DEF avoid_lock, AvoidGoes
<1>12. CASE avoid_wait    BY <1>12 DEF avoid_wait, AvoidGoes
<1>13. CASE avoid_copy    BY <1>13 DEF avoid_copy, AvoidGoes
<1>14. CASE avoid_unlock
  <2>1. Unlit \in Measurement
    BY ProximityAssumption DEF Unlit, Measurement
  <2>2. message' \in Values
    BY <1>14, <2>1 DEF avoid_unlock, Nothing, Values
  <2> QED BY <1>14, <2>2 DEF avoid_unlock, AvoidGoes, Values, Nobody_holds
<1>15. CASE avoid_calibrated BY <1>15 DEF avoid_calibrated, AvoidGoes
<1>16. CASE avoid_timer   BY <1>16 DEF avoid_timer, AvoidGoes
<1>17. CASE UNCHANGED proximityVars BY <1>17 DEF proximityVars
<1> QED
  BY <1>1, <1>2, <1>3, <1>4, <1>5, <1>6, <1>7, <1>8, <1>9, <1>10, <1>11, <1>12, <1>13,
     <1>14, <1>15, <1>16, <1>17
  DEF ProximityNext, ProxThread, AvoidThread

(* The type invariant of the sensors, the topic and avoid_obstacles' waits. *)
THEOREM ProximityTyped == ProximitySpec => []ProximityTypeOK
  BY SensorsStart, SensorsStep, PTL DEF ProximitySpec, SensorsInv

(* Only sound samples are summed up, whenever the first round is over and  *)
(* however far proximity_thd is behind the converter.                      *)
LEMMA CalibrationStep ==
  ProximityTypeOK /\ CalibrationInv /\ [ProximityNext]_proximityVars => CalibrationInv'
<1> SUFFICES ASSUME ProximityTypeOK, CalibrationInv, [ProximityNext]_proximityVars
             PROVE  CalibrationInv'
  OBVIOUS
<1> USE DEF ProximityTypeOK, CalibrationInv, LightInv, MeasureInv, SumInv, Tainted,
        topicVars, calibrationVars, avoidVars, lightVars
<1>1. CASE pwm_period
  <2>1. pulseSeqState # 0 => lit' /\ pulseSeqState' = trigger' + 1
    <3> SUFFICES ASSUME pulseSeqState # 0 PROVE lit' /\ pulseSeqState' = trigger' + 1
      OBVIOUS
    <3>1. lit /\ Pulse = Due
      BY InStep
    <3>2. lit'
      BY <1>1, <3>1, Zenon DEF pwm_period
    <3>3. pulseSeqState' = (pulseSeqState % 8) + 1 /\ pulseSeqState \in 1 .. 7
      BY <1>1 DEF pwm_period, pwm_reset_cb
    <3> QED BY <1>1, <3>2, <3>3 DEF pwm_period
  <2>2. pulseSeqState = 0 => pulseSeqState' = 0
    BY <1>1 DEF pwm_period, pwm_reset_cb
  <2> QED BY <1>1, <2>1, <2>2 DEF pwm_period
<1>2. CASE adc_cb
  <2>1. pulseSeqState # 0 => adc2_values' # Unlit
    BY <1>2, InStep, AfterTyped DEF adc_cb
  <2>2. pulseSeqState' = 1 /\ trigger' = 0 /\ lit'
    BY <1>2 DEF adc_cb
  <2> QED BY <1>2, <2>1, <2>2 DEF adc_cb
<1>3. CASE prox_advertise BY <1>3 DEF prox_advertise, ProxRuns, ProxGoes
<1>4. CASE prox_sem       BY <1>4 DEF prox_sem, ProxRuns, ProxGoes
<1>5. CASE prox_write     BY <1>5 DEF prox_write, ProxRuns, ProxGoes
<1>6. CASE prox_lock      BY <1>6 DEF prox_lock, ProxRuns, ProxGoes
<1>7. CASE prox_publish   BY <1>7 DEF prox_publish, ProxRuns, ProxGoes
<1>8. CASE prox_unlock    BY <1>8 DEF prox_unlock, ProxRuns, ProxGoes
<1>9. CASE prox_calibrate
  <2>1. LightInv' /\ MeasureInv'
    BY <1>9 DEF prox_calibrate, ProxRuns, ProxGoes
  <2>2. CASE ~calibrationInProgress
    BY <1>9, <2>1, <2>2 DEF prox_calibrate
  <2>3. CASE calibrationInProgress /\ calibrationState = 0
    BY <1>9, <2>1, <2>3 DEF prox_calibrate, calibration_step
  <2>4. CASE calibrationInProgress /\ calibrationState = 1
    <3>1. ~Tainted(prox_values.delta)
      BY <1>9, <2>4 DEF prox_calibrate, ProxRuns
    <3>2. calibrationSum' = [n |-> calibrationSum.n + 1,
                             dirty |-> calibrationSum.dirty \/ Tainted(prox_values.delta)]
      BY <1>9, <2>4 DEF prox_calibrate, calibration_step
    <3>3. ~calibrationSum'.dirty
      BY <3>1, <3>2
    <3>4. initValue' = IF calibrationSum'.n # SAMPLES THEN initValue
                       ELSE IF calibrationSum'.dirty THEN "dirty" ELSE "clean"
      BY <1>9, <2>4 DEF prox_calibrate, calibration_step
    <3> QED BY <2>1, <3>3, <3>4
  <2> QED BY <2>2, <2>3, <2>4
<1>10. CASE AvoidThread
  BY <1>10 DEF AvoidThread, avoid_find, avoid_lock, avoid_wait, avoid_copy, avoid_unlock
<1>11. CASE avoid_calibrated BY <1>11 DEF avoid_calibrated
<1>12. CASE avoid_timer      BY <1>12 DEF avoid_timer
<1>13. CASE UNCHANGED proximityVars BY <1>13 DEF proximityVars
<1> QED
  BY <1>1, <1>2, <1>3, <1>4, <1>5, <1>6, <1>7, <1>8, <1>9, <1>10, <1>11, <1>12, <1>13
  DEF ProximityNext, ProxThread

(* The calibration of the sensors sums samples of their own light only,    *)
(* whatever the number of samples (proximity.c:85).                        *)
THEOREM CleanCalibration == ProximitySpec => []CalibrationIsClean
<1>1. ProximityInit => CalibrationInv
  <2> SUFFICES ASSUME ProximityInit PROVE CalibrationInv
    OBVIOUS
  <2>1. pulseSeqState = 0 /\ calibrationState = 0 /\ prox_pc = "advertise"
        /\ initValue = "none"
    BY DEF ProximityInit
  <2>2. ~adc2_ready /\ ~calibrationSum.dirty
    BY Zenon DEF ProximityInit
  <2> QED BY <2>1, <2>2 DEF CalibrationInv, LightInv, MeasureInv, SumInv
<1>2. CalibrationInv => CalibrationIsClean
  BY DEF CalibrationInv, SumInv, CalibrationIsClean
<1> QED
  BY <1>1, <1>2, ProximityTyped, CalibrationStep, PTL DEF ProximitySpec

(* A message on its way to avoid_obstacles stays whole: the lock keeps     *)
(* proximity_thd from publishing meanwhile, the priorities from writing.   *)
LEMMA TopicStep ==
  ProximityTypeOK /\ TopicInv /\ [ProximityNext]_proximityVars => TopicInv'
<1> SUFFICES ASSUME ProximityTypeOK, TopicInv, [ProximityNext]_proximityVars
             PROVE  TopicInv'
  OBVIOUS
<1> USE DEF ProximityTypeOK, TopicInv, LockInv, MessageInv, Nobody_holds, topicVars,
        calibrationVars, avoidVars, lightVars
<1>1. CASE pwm_period     BY <1>1 DEF pwm_period
<1>2. CASE adc_cb         BY <1>2 DEF adc_cb
<1>3. CASE prox_advertise
  BY <1>3 DEF prox_advertise, ProxRuns, ProxGoes
<1>4. CASE prox_sem       BY <1>4 DEF prox_sem, ProxRuns, ProxGoes
<1>5. CASE prox_write
  <2>1. avoid_pc \notin {"relock", "copy", "copying", "unlock"}
    BY <1>5 DEF prox_write, ProxRuns
  <2>2. prox_pc' \in {"reflected", "delta", "lock"}
    BY <1>5 DEF prox_write, ProxGoes
  <2>3. prox_pc' = "lock" =>
          prox_values'.delta = <<prox_values'.ambient, prox_values'.reflected>>
    BY <1>5 DEF prox_write, ProxRuns, ProxGoes
  <2> QED BY <1>5, <2>1, <2>2, <2>3 DEF prox_write, ProxRuns
<1>6. CASE prox_lock      BY <1>6 DEF prox_lock, ProxRuns, ProxGoes, AvoidCanRun
<1>7. CASE prox_publish   BY <1>7 DEF prox_publish, ProxRuns, ProxGoes, AvoidCanRun
<1>8. CASE prox_unlock    BY <1>8 DEF prox_unlock, ProxRuns, ProxGoes, AvoidCanRun
<1>9. CASE prox_calibrate
  BY <1>9 DEF prox_calibrate, ProxRuns, ProxGoes, AvoidCanRun
<1>10. CASE avoid_find    BY <1>10 DEF avoid_find, AvoidGoes
<1>11. CASE avoid_lock    BY <1>11 DEF avoid_lock, AvoidGoes
<1>12. CASE avoid_wait    BY <1>12 DEF avoid_wait, AvoidGoes
<1>13. CASE avoid_copy    BY <1>13 DEF avoid_copy, AvoidGoes
<1>14. CASE avoid_unlock  BY <1>14 DEF avoid_unlock, AvoidGoes
<1>15. CASE avoid_calibrated BY <1>15 DEF avoid_calibrated, AvoidGoes
<1>16. CASE avoid_timer   BY <1>16 DEF avoid_timer, AvoidGoes
<1>17. CASE UNCHANGED proximityVars BY <1>17 DEF proximityVars
<1> QED
  BY <1>1, <1>2, <1>3, <1>4, <1>5, <1>6, <1>7, <1>8, <1>9, <1>10, <1>11, <1>12, <1>13,
     <1>14, <1>15, <1>16, <1>17
  DEF ProximityNext, ProxThread, AvoidThread

(* The message invariant holds from the beginning, and always.             *)
LEMMA TopicKept == ProximitySpec => [](ProximityTypeOK /\ TopicInv)
<1>1. ProximityInit => TopicInv
  BY DEF ProximityInit, TopicInv, LockInv, MessageInv, Nothing, Nobody_holds
<1> QED
  BY <1>1, ProximityTyped, TopicStep, PTL DEF ProximitySpec

(* The message that avoid_obstacles acts on is of one publication, though  *)
(* its buffer is written without the topic's lock (proximity.c:174).       *)
THEOREM WholeMessages == ProximitySpec => []TopicIsAtomic
<1>1. ProximityTypeOK /\ TopicInv => TopicIsAtomic
  BY DEF TopicInv, MessageInv, TopicIsAtomic
<1> QED
  BY <1>1, TopicKept, PTL

(* A wait never gives the message again that avoid_obstacles had before it *)
(* (messagebus.c:125): what it copies was published after it was called.   *)
THEOREM NewMessages == ProximitySpec => []WaitGivesNewMessage
<1>1. ProximityTypeOK /\ TopicInv => WaitGivesNewMessage
  BY DEF TopicInv, MessageInv, WaitGivesNewMessage
<1> QED
  BY <1>1, TopicKept, PTL

-----------------------------------------------------------------------------
(* Module MelodyPlayer.                                                    *)

(* Who waits for nothing but the processor. *)
PlayerCan == player_pc \notin {"waiting", "sleep"}
MelodyCan == melody_pc # "note" /\ ~play_melody_ref

Waiting ==
  IF PlayerCan /\ MelodyCan THEN {<<Player, Melody>>, <<Melody, Player>>}
  ELSE IF PlayerCan THEN {<<Player>>}
  ELSE IF MelodyCan THEN {<<Melody>>} ELSE {<<>>}

(* Each of the two runs, is once in the ready list, or has a reason not to. *)
QueueInv ==
  /\ running = Player => PlayerCan /\ ready = IF MelodyCan THEN <<Melody>> ELSE <<>>
  /\ running = Melody => MelodyCan /\ ready = IF PlayerCan THEN <<Player>> ELSE <<>>
  /\ running = Nobody => ready \in Waiting

(* The player only gets the processor when the melody thread has suspended *)
(* itself, sleeps in a note, or has slept in one; a song that was resumed  *)
(* begins before.                                                          *)
TurnInv ==
  /\ play_melody_ref => melody_pc = "suspended"
  /\ running = Player \/ ready = <<Player, Melody>> =>
       play_melody_ref \/ melody_pc \in {"note", "next"}

(* The player has been told the end, or has seen that there is none to be  *)
(* told, when it changes the song.                                         *)
EndInv ==
  /\ player_pc \in {"check", "wait"} => running = Player
  /\ player_pc = "wait" => ~play_melody_ref
  /\ player_pc = "waiting" => melody_pc \in {"next", "note", "end"}
  /\ player_pc = "change" => play_melody_ref \/ (running = Melody /\ melody_pc = "suspend")

(* What is played is a song, and not beyond its end. *)
SongsInv ==
  /\ player_pc \in {"check", "wait", "waiting", "change"} => call \in Song
  /\ melody_pc = "suspended" /\ ~play_melody_ref => rdymsg \in Song
  /\ melody_pc \in {"next", "note", "end"} => song \in Song
  /\ melody_pc = "note" => thisNote < length[song]

MelodyInv == MelodyTypeOK /\ QueueInv /\ TurnInv /\ EndInv /\ SongsInv

(* What the operators of Peers make of the short lists there are.          *)
LEMMA Appended ==
  ASSUME NEW x, NEW y
  PROVE  Append(<<x>>, y) = <<x, y>> /\ <<x>> \o <<y>> = <<x, y>>
<1> DEFINE S == {x, y}
<1>1. <<x>> \in Seq(S) /\ <<y>> \in Seq(S) /\ y \in S
  OBVIOUS
<1>2. /\ Append(<<x>>, y) \in Seq(S) /\ Len(Append(<<x>>, y)) = 2
      /\ Append(<<x>>, y)[1] = x /\ Append(<<x>>, y)[2] = y
  BY <1>1, SMT
<1>3. /\ <<x>> \o <<y>> \in Seq(S) /\ Len(<<x>> \o <<y>>) = 2
      /\ (<<x>> \o <<y>>)[1] = x /\ (<<x>> \o <<y>>)[2] = y
  BY <1>1, SMT
<1>4. <<x, y>> \in Seq(S) /\ Len(<<x, y>>) = 2 /\ <<x, y>>[1] = x /\ <<x, y>>[2] = y
  OBVIOUS
<1> HIDE DEF S
<1>5. \A i \in 1 .. 2 : /\ Append(<<x>>, y)[i] = <<x, y>>[i]
                        /\ (<<x>> \o <<y>>)[i] = <<x, y>>[i]
  BY <1>2, <1>3, <1>4
<1> QED
  BY <1>2, <1>3, <1>4, <1>5, SeqEqual

(* Lists of at most two threads.                                           *)
LEMMA ShortLists ==
  /\ \A x : /\ Append(<<>>, x) = <<x>> /\ <<>> \o <<x>> = <<x>> /\ <<x>> \o <<>> = <<x>>
            /\ Head(<<x>>) = x /\ Tail(<<x>>) = <<>> /\ <<x>> # <<>>
  /\ \A x, y : /\ Append(<<x>>, y) = <<x, y>> /\ <<x>> \o <<y>> = <<x, y>>
               /\ Head(<<x, y>>) = x /\ Tail(<<x, y>>) = <<y>>
               /\ <<x, y>> # <<>> /\ <<x, y>> \o <<>> = <<x, y>>
  /\ <<>> \o <<>> = <<>>
BY Appended, SMT

(* Every step keeps who is in the queue and whose turn it is.              *)
LEMMA QueueStep ==
  MelodyTypeOK /\ QueueInv /\ TurnInv /\ [MelodyNext]_melodyVarsAll
    => QueueInv' /\ TurnInv'
<1> SUFFICES ASSUME MelodyTypeOK, QueueInv, TurnInv, [MelodyNext]_melodyVarsAll
             PROVE  QueueInv' /\ TurnInv'
  OBVIOUS
<1>0. running \in {Player, Melody, Nobody}
  BY DEF MelodyTypeOK
<1> USE ShortLists
    DEF QueueInv, TurnInv, Waiting, PlayerCan, MelodyCan, Player, Melody, Nobody,
        peerVars, playerVars, melodyVars, GoesOn, GoesOnWaking, Awakens, Blocks,
        BlocksWaking
<1>1. CASE set_music_to_play BY <1>1 DEF set_music_to_play
<1>2. CASE PlayerSilences    BY <1>2 DEF PlayerSilences
<1>3. CASE PlayerRepeats     BY <1>3 DEF PlayerRepeats, ResumeAndSleep
<1>4. CASE PlayerForces      BY <1>4 DEF PlayerForces
<1>5. CASE PlayerChecks      BY <1>5 DEF PlayerChecks
<1>6. CASE PlayerWaits       BY <1>6 DEF PlayerWaits
<1>7. CASE PlayerChanges
  <2>1. /\ running = Player /\ player_pc' = "sleep" /\ UNCHANGED melody_pc
        /\ ResumeAndSleep(call)
    BY <1>7, Zenon DEF PlayerChanges, melodyVars
  <2> QED
    BY <2>1 DEF ResumeAndSleep
<1>8. CASE PlayerTimer
  <2>1. /\ player_pc' = "switch" /\ ready' = Append(ready, Player)
        /\ UNCHANGED <<running, melody_pc, play_melody_ref>>
    BY <1>8 DEF PlayerTimer
  <2>2. running # Player
    BY <1>8 DEF PlayerTimer
  <2>3. ready = <<>> => ready' = <<Player>>
    BY <2>1
  <2>4. ready = <<Melody>> => ready' = <<Melody, Player>>
    BY <2>1
  <2>5. CASE running = Melody
    BY <1>8, <2>1, <2>3, <2>5 DEF PlayerTimer
  <2>6. CASE running = Nobody /\ MelodyCan
    BY <1>8, <2>1, <2>4, <2>6 DEF PlayerTimer
  <2>7. CASE running = Nobody /\ ~MelodyCan
    BY <1>8, <2>1, <2>3, <2>7 DEF PlayerTimer
  <2> QED
    BY <1>0, <2>2, <2>5, <2>6, <2>7
<1>9. CASE MelodySuspends    BY <1>9 DEF MelodySuspends
<1>10. CASE MelodyResumed    BY <1>10 DEF MelodyResumed
<1>11. CASE MelodyNote
  <2>1. /\ running = Melody /\ melody_pc' = "note" /\ Blocks
        /\ UNCHANGED <<player_pc, play_melody_ref>>
    BY <1>11, Zenon DEF MelodyNote, playerVars
  <2> QED
    BY <2>1
<1>12. CASE MelodyTimer
  <2>1. /\ melody_pc' = "next" /\ ready' = Append(ready, Melody)
        /\ UNCHANGED <<running, player_pc, play_melody_ref>>
    BY <1>12, Zenon DEF MelodyTimer, playerVars, Awakens, GoesOnWaking
  <2>2. melody_pc = "note" /\ running # Melody /\ ~play_melody_ref
    BY <1>12, Zenon DEF MelodyTimer, QueueInv, TurnInv
  <2>3. ready = <<>> => ready' = <<Melody>>
    BY <2>1
  <2>4. ready = <<Player>> => ready' = <<Player, Melody>>
    BY <2>1
  <2>5. CASE running = Player
    BY <2>1, <2>2, <2>3, <2>5
  <2>6. CASE running = Nobody /\ PlayerCan
    BY <2>1, <2>2, <2>4, <2>6
  <2>7. CASE running = Nobody /\ ~PlayerCan
    BY <2>1, <2>2, <2>3, <2>7
  <2> QED
    BY <1>0, <2>2, <2>5, <2>6, <2>7
<1>13. CASE MelodyOver
  <2>1. /\ running = Melody /\ melody_pc' = "end" /\ GoesOn
        /\ UNCHANGED <<player_pc, play_melody_ref>>
    BY <1>13, Zenon DEF MelodyOver, playerVars
  <2> QED
    BY <2>1
<1>14. CASE MelodyTells
  <2>1. CASE player_pc = "waiting"
    BY <1>14, <2>1 DEF MelodyTells, Player_awakes
  <2>2. CASE player_pc # "waiting"
    BY <1>14, <2>2 DEF MelodyTells, Player_awakes
  <2> QED
    BY <2>1, <2>2
<1>15. CASE MelodyDispatch
  <2>1. /\ running = Nobody /\ ready # <<>>
        /\ running' = Head(ready) /\ ready' = Tail(ready)
        /\ UNCHANGED <<player_pc, melody_pc, play_melody_ref>>
    BY <1>15, Zenon DEF MelodyDispatch, Dispatch, playerVars, melodyVars
  <2>2. CASE PlayerCan /\ MelodyCan /\ ready = <<Player, Melody>>
    <3>1. running' = Player /\ ready' = <<Melody>>
      BY <2>1, <2>2
    <3> QED
      BY <2>1, <2>2, <3>1
  <2>3. CASE PlayerCan /\ MelodyCan /\ ready = <<Melody, Player>>
    <3>1. running' = Melody /\ ready' = <<Player>>
      BY <2>1, <2>3
    <3> QED
      BY <2>1, <2>3, <3>1
  <2>4. CASE PlayerCan /\ ~MelodyCan
    <3>1. running' = Player /\ ready' = <<>>
      BY <2>1, <2>4
    <3> QED
      BY <2>1, <2>4, <3>1
  <2>5. CASE ~PlayerCan /\ MelodyCan
    <3>1. running' = Melody /\ ready' = <<>>
      BY <2>1, <2>5
    <3> QED
      BY <2>1, <2>5, <3>1
  <2> QED
    BY <2>1, <2>2, <2>3, <2>4, <2>5
<1>16. CASE UNCHANGED melodyVarsAll BY <1>16 DEF melodyVarsAll
<1> QED
  BY <1>1, <1>2, <1>3, <1>4, <1>5, <1>6, <1>7, <1>8, <1>9, <1>10, <1>11, <1>12, <1>13,
     <1>14, <1>15, <1>16
  DEF MelodyNext, PlayerThread, MelodyThread

(* The end of a song that is waited for stays to come.                     *)
LEMMA EndStep ==
  MelodyTypeOK /\ QueueInv /\ TurnInv /\ EndInv /\ [MelodyNext]_melodyVarsAll => EndInv'
<1> SUFFICES ASSUME MelodyTypeOK, QueueInv, TurnInv, EndInv, [MelodyNext]_melodyVarsAll
             PROVE  EndInv'
  OBVIOUS
<1>0. running \in {Player, Melody, Nobody}
  BY DEF MelodyTypeOK
<1> USE DEF EndInv, Player, Melody, Nobody, peerVars, playerVars, melodyVars, GoesOn,
            GoesOnWaking, Awakens, Blocks, BlocksWaking
<1>1. CASE set_music_to_play BY <1>1, Zenon DEF set_music_to_play
<1>2. CASE PlayerSilences    BY <1>2 DEF PlayerSilences
<1>3. CASE PlayerRepeats     BY <1>3 DEF PlayerRepeats
<1>4. CASE PlayerForces      BY <1>4 DEF PlayerForces
<1>5. CASE PlayerChecks      BY <1>5 DEF PlayerChecks
<1>6. CASE PlayerWaits       BY <1>6 DEF PlayerWaits, TurnInv, QueueInv
<1>7. CASE PlayerChanges     BY <1>7, Zenon DEF PlayerChanges
<1>8. CASE PlayerTimer       BY <1>8 DEF PlayerTimer
<1>9. CASE MelodySuspends    BY <1>9 DEF MelodySuspends
<1>10. CASE MelodyResumed    BY <1>10 DEF MelodyResumed, TurnInv
<1>11. CASE MelodyNote       BY <1>11, Zenon DEF MelodyNote
<1>12. CASE MelodyTimer      BY <1>12, Zenon DEF MelodyTimer
<1>13. CASE MelodyOver       BY <1>13, Zenon DEF MelodyOver
<1>14. CASE MelodyTells      BY <1>14 DEF MelodyTells, Player_awakes
<1>15. CASE MelodyDispatch   BY <1>15 DEF MelodyDispatch, Dispatch
<1>16. CASE UNCHANGED melodyVarsAll BY <1>16 DEF melodyVarsAll
<1> QED
  BY <1>1, <1>2, <1>3, <1>4, <1>5, <1>6, <1>7, <1>8, <1>9, <1>10, <1>11, <1>12, <1>13,
     <1>14, <1>15, <1>16
  DEF MelodyNext, PlayerThread, MelodyThread

(* No step drops a song that was asked for.                                *)
LEMMA SongsStep ==
  MelodyTypeOK /\ QueueInv /\ TurnInv /\ EndInv /\ SongsInv /\ [MelodyNext]_melodyVarsAll
    => SongsInv'
<1> SUFFICES ASSUME MelodyTypeOK, QueueInv, TurnInv, EndInv, SongsInv,
                    [MelodyNext]_melodyVarsAll
             PROVE  SongsInv'
  OBVIOUS
<1>0. music_to_play \in Music /\ NO_SONG \notin Song
  BY MelodyAssumption DEF MelodyTypeOK
<1> USE DEF SongsInv, Player, Melody, playerVars, melodyVars
<1>1. CASE set_music_to_play BY <1>1 DEF set_music_to_play
<1>2. CASE PlayerSilences    BY <1>2 DEF PlayerSilences
<1>3. CASE PlayerRepeats
  BY <1>0, <1>3 DEF PlayerRepeats, ResumeAndSleep, Music, TurnInv
<1>4. CASE PlayerForces      BY <1>0, <1>4 DEF PlayerForces, Music
<1>5. CASE PlayerChecks      BY <1>5 DEF PlayerChecks
<1>6. CASE PlayerWaits       BY <1>6 DEF PlayerWaits
<1>7. CASE PlayerChanges     BY <1>7 DEF PlayerChanges, ResumeAndSleep
<1>8. CASE PlayerTimer       BY <1>8 DEF PlayerTimer
<1>9. CASE MelodySuspends    BY <1>9 DEF MelodySuspends
<1>10. CASE MelodyResumed    BY <1>10 DEF MelodyResumed, QueueInv, MelodyCan
<1>11. CASE MelodyNote       BY <1>11 DEF MelodyNote
<1>12. CASE MelodyTimer      BY <1>12 DEF MelodyTimer
<1>13. CASE MelodyOver       BY <1>13 DEF MelodyOver
<1>14. CASE MelodyTells      BY <1>14 DEF MelodyTells, Player_awakes
<1>15. CASE MelodyDispatch   BY <1>15 DEF MelodyDispatch
<1>16. CASE UNCHANGED melodyVarsAll BY <1>16 DEF melodyVarsAll
<1> QED
  BY <1>1, <1>2, <1>3, <1>4, <1>5, <1>6, <1>7, <1>8, <1>9, <1>10, <1>11, <1>12, <1>13,
     <1>14, <1>15, <1>16
  DEF MelodyNext, PlayerThread, MelodyThread

(* The number of a note is one of the song's, or the song's length. *)
LEMMA NotesTyped ==
  /\ \A s \in Song : length[s] \in Nat \ {0} /\ s # NO_SONG
  /\ MelodyTypeOK => thisNote \in Nat
BY MelodyAssumption DEF MelodyTypeOK, Music

(* Every step keeps the types.                                             *)
LEMMA MelodyTypeStep ==
  MelodyInv /\ QueueInv' /\ SongsInv' /\ [MelodyNext]_melodyVarsAll => MelodyTypeOK'
<1> SUFFICES ASSUME MelodyInv, QueueInv', SongsInv', [MelodyNext]_melodyVarsAll
             PROVE  MelodyTypeOK'
  OBVIOUS
<1> USE DEF MelodyInv
<1>1. /\ music_to_play' \in Music /\ temp' \in Music /\ call' \in Music
      /\ rdymsg' \in Music /\ song' \in Music
  BY DEF MelodyTypeOK, MelodyNext, PlayerThread, MelodyThread, set_music_to_play,
         PlayerSilences, PlayerRepeats, PlayerForces, PlayerChecks, PlayerWaits,
         PlayerChanges, PlayerTimer, MelodySuspends, MelodyResumed, MelodyNote,
         MelodyTimer, MelodyOver, MelodyTells, MelodyDispatch, ResumeAndSleep,
         playerVars, melodyVars, melodyVarsAll
<1>2. /\ player_pc' \in {"switch", "check", "wait", "waiting", "change", "sleep"}
      /\ melody_pc' \in {"suspend", "suspended", "next", "note", "end"}
  BY DEF MelodyTypeOK, MelodyNext, PlayerThread, MelodyThread, set_music_to_play,
         PlayerSilences, PlayerRepeats, PlayerForces, PlayerChecks, PlayerWaits,
         PlayerChanges, PlayerTimer, MelodySuspends, MelodyResumed, MelodyNote,
         MelodyTimer, MelodyOver, MelodyTells, MelodyDispatch, Player_awakes,
         playerVars, melodyVars, melodyVarsAll
<1>3. play' \in BOOLEAN /\ play_melody_ref' \in BOOLEAN
  BY Zenon DEF MelodyTypeOK, MelodyNext, PlayerThread, MelodyThread, set_music_to_play,
         PlayerSilences, PlayerRepeats, PlayerForces, PlayerChecks, PlayerWaits,
         PlayerChanges, PlayerTimer, MelodySuspends, MelodyResumed, MelodyNote,
         MelodyTimer, MelodyOver, MelodyTells, MelodyDispatch, ResumeAndSleep,
         playerVars, melodyVars, melodyVarsAll
<1>4. running' \in {Player, Melody, Nobody}
  BY DEF MelodyTypeOK, MelodyNext, PlayerThread, MelodyThread, set_music_to_play,
         PlayerSilences, PlayerRepeats, PlayerForces, PlayerChecks, PlayerWaits,
         PlayerChanges, PlayerTimer, MelodySuspends, MelodyResumed, MelodyNote,
         MelodyTimer, MelodyOver, MelodyTells, MelodyDispatch, ResumeAndSleep,
         playerVars, melodyVars, melodyVarsAll, peerVars, GoesOn, GoesOnWaking, Awakens,
         Blocks, BlocksWaking, Dispatch
<1>5. ready' \in Seq({Player, Melody})
  <2>1. ready' \in {<<>>, <<Player>>, <<Melody>>, <<Player, Melody>>, <<Melody, Player>>}
    <3>1. CASE running' = Player
      BY <3>1 DEF QueueInv
    <3>2. CASE running' = Melody
      BY <3>2 DEF QueueInv
    <3>3. CASE running' = Nobody
      BY <3>3 DEF QueueInv, Waiting
    <3> QED
      BY <1>4, <3>1, <3>2, <3>3
  <2>2. /\ <<>> \in Seq({Player, Melody}) /\ <<Player>> \in Seq({Player, Melody})
        /\ <<Melody>> \in Seq({Player, Melody})
        /\ <<Player, Melody>> \in Seq({Player, Melody})
        /\ <<Melody, Player>> \in Seq({Player, Melody})
    OBVIOUS
  <2> QED
    BY <2>1, <2>2, Zenon
<1>6. thisNote' \in 0 .. (IF song' = NO_SONG THEN 0 ELSE length[song'])
  <2>1. CASE UNCHANGED <<song, thisNote>>
    BY <2>1 DEF MelodyTypeOK
  <2>2. CASE MelodyResumed
    BY <1>1, <2>2, NotesTyped DEF MelodyResumed, Music
  <2>3. CASE MelodyTimer
    BY <2>3, NotesTyped DEF MelodyTimer, SongsInv
  <2> QED
    BY <2>1, <2>2, <2>3
    DEF MelodyNext, PlayerThread, MelodyThread, set_music_to_play,
        PlayerSilences, PlayerRepeats, PlayerForces, PlayerChecks, PlayerWaits,
        PlayerChanges, PlayerTimer, MelodySuspends, MelodyNote,
        MelodyOver, MelodyTells, MelodyDispatch, playerVars, melodyVars, melodyVarsAll
<1> QED
  BY <1>1, <1>2, <1>3, <1>4, <1>5, <1>6, Zenon DEF MelodyTypeOK

(* Both threads are ready at first.                                        *)
LEMMA MelodyStart == MelodyInit => MelodyInv
<1> SUFFICES ASSUME MelodyInit PROVE MelodyInv
  OBVIOUS
<1>1. <<Melody, Player>> \in Seq({Player, Melody})
  OBVIOUS
<1>2. play \in BOOLEAN /\ play_melody_ref \in BOOLEAN
  BY Zenon DEF MelodyInit, MelodyStarts
<1>3. NO_SONG \in Music /\ thisNote \in 0 .. (IF song = NO_SONG THEN 0 ELSE length[song])
  BY DEF Music, MelodyInit, MelodyStarts
<1>4. MelodyTypeOK
  BY <1>1, <1>2, <1>3, Zenon DEF MelodyInit, MelodyStarts, MelodyReady, MelodyTypeOK
<1>5. QueueInv /\ TurnInv
  BY ShortLists DEF MelodyInit, MelodyStarts, MelodyReady, QueueInv, TurnInv, Waiting,
     PlayerCan, MelodyCan, Player, Melody, Nobody
<1>6. EndInv /\ SongsInv
  BY DEF MelodyInit, MelodyStarts, EndInv, SongsInv
<1> QED
  BY <1>4, <1>5, <1>6 DEF MelodyInv

(* Every step keeps the invariant.                                         *)
LEMMA MelodyStep == MelodyInv /\ [MelodyNext]_melodyVarsAll => MelodyInv'
BY QueueStep, EndStep, SongsStep, MelodyTypeStep DEF MelodyInv

(* The player and the melody thread keep their types, places in the ready  *)
(* list and turns for ever, and no note is played beyond a song's end.     *)
THEOREM MelodyKept == MelodySpec => []MelodyInv
  BY MelodyStart, MelodyStep, PTL DEF MelodySpec

(* No song is resumed into the void (play_melody.c:766 against 742).       *)
THEOREM SongsArrive == MelodySpec => []NoSongIsLost
<1>1. MelodyInv => NoSongIsLost
  BY DEF MelodyInv, EndInv, NoSongIsLost, Player, Melody
<1> QED
  BY <1>1, MelodyKept, PTL

(* The end that the player waits for has not been told yet, though the     *)
(* test of play_melody.c:818 is not under the mutex of line 820.           *)
THEOREM EndsComeAfterTheWait == MelodySpec => []WaitedEndIsToCome
<1>1. MelodyInv => WaitedEndIsToCome
  BY DEF MelodyInv, EndInv, WaitedEndIsToCome
<1> QED
  BY <1>1, MelodyKept, PTL
=============================================================================
