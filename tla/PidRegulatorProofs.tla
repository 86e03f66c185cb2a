------------------------- MODULE PidRegulatorProofs -------------------------
(***************************************************************************)
(* That the numbers of the regulator stay in their types, for any range of *)
(* the sensor up to 1526 mm: RegulatorTypeOK is inductive, and bounds the  *)
(* window, the sum and the last error, whatever pursuit they come from.    *)
(* That it strikes at its goal, wherever the enemy stood and went, and     *)
(* does not run into an enemy that turns up far enough away.               *)
(***************************************************************************)
EXTENDS PidRegulator, TLAPS

(* The sum of half a window.                                               *)
LEMMA FiveReadings ==
  ASSUME NEW a \in Reading, NEW b \in Reading, NEW c \in Reading, NEW d \in Reading,
         NEW e \in Reading
  PROVE  a + b + c + d + e \in 0..(5 * RANGE)
<1>1. RANGE \in Nat
  BY RegulatorAssumption, SMT
<1>2. a + b \in 0..(2 * RANGE)
  BY <1>1, SMT DEF Reading
<1>3. a + b + c \in 0..(3 * RANGE)
  BY <1>1, <1>2, SMT DEF Reading
<1>4. a + b + c + d \in 0..(4 * RANGE)
  BY <1>1, <1>3, SMT DEF Reading
<1> QED
  BY <1>1, <1>4, SMT DEF Reading

(* Ten readings do not wrap in a uint16_t, and their mean is a reading.    *)
LEMMA MeanIsReading ==
  ASSUME NEW w \in [0..(NB_SAMPLES - 1) -> Reading]
  PROVE  Total(w) \in Nat /\ Total(w) < UINT16 /\ Mean(w) \in Reading
<1>1. \A i \in 0..9 : w[i] \in Reading
  BY SMT DEF NB_SAMPLES
<1>2. RANGE \in Nat /\ 50 <= RANGE /\ RANGE <= 1526
  BY RegulatorAssumption, SMT
<1>3. /\ Total(w) \in Nat
      /\ Total(w) <= 10 * RANGE
  <2>1. /\ w[0] \in Reading /\ w[1] \in Reading /\ w[2] \in Reading
        /\ w[3] \in Reading /\ w[4] \in Reading
    BY <1>1, SMT
  <2>2. /\ w[5] \in Reading /\ w[6] \in Reading /\ w[7] \in Reading
        /\ w[8] \in Reading /\ w[9] \in Reading
    BY <1>1, SMT
  <2>3. PICK m \in 0..(5 * RANGE) : m = w[0] + w[1] + w[2] + w[3] + w[4]
    BY <2>1, FiveReadings
  <2>4. PICK n \in 0..(5 * RANGE) : n = w[5] + w[6] + w[7] + w[8] + w[9]
    BY <2>2, FiveReadings
  <2>5. Total(w) = m + n
    BY <2>3, <2>4 DEF Total
  <2> QED
    BY <1>2, <2>3, <2>4, <2>5, SMT
<1>4. Total(w) < UINT16
  BY <1>2, <1>3 DEF UINT16
<1>5. Total(w) % UINT16 = Total(w)
  BY <1>3, <1>4 DEF UINT16
<1>6. Total(w) \div 10 \in 0..RANGE
  BY <1>2, <1>3
<1> QED
  BY <1>3, <1>4, <1>5, <1>6 DEF Mean, Reading, NB_SAMPLES

(* What Capped gives.                                                      *)
LEMMA CappedBounds ==
  ASSUME NEW n \in Int, NEW most \in Nat
  PROVE  /\ Capped(n, most) \in -most..most
         /\ Capped(n, most) \in Int /\ -most <= Capped(n, most) /\ Capped(n, most) <= most
  BY SMT DEF Capped

(* What Truncated gives.                                                   *)
LEMMA TruncatedBounds ==
  ASSUME NEW n \in Int, -163840 <= n, n <= 163839
  PROVE  Fits(n)
<1>1. CASE n >= 0
  <2>1. Truncated(n) = n \div 5
    BY <1>1 DEF Truncated
  <2>2. n \div 5 \in Int /\ 0 <= n \div 5 /\ n \div 5 <= 32767
    BY <1>1, SMT
  <2> QED
    BY <2>1, <2>2, SMT DEF Fits, InInt16, INT16_MAX
<1>2. CASE ~(n >= 0)
  <2>1. Truncated(n) = -((-n) \div 5)
    BY <1>2 DEF Truncated
  <2>2. PICK m \in Int : m = -n
    BY SMT
  <2>3. m \div 5 \in Int /\ 0 <= m \div 5 /\ m \div 5 <= 32768
    BY <1>2, <2>2, SMT
  <2> QED
    BY <2>1, <2>2, <2>3, SMT DEF Fits, InInt16, INT16_MAX
<1> QED
  BY <1>1, <1>2

(* The speed fits in an int16_t.                                           *)
LEMMA SpeedFits ==
  ASSUME RegulatorTypeOK, NEW error \in -GOAL_DIST..(RANGE - GOAL_DIST)
  PROVE  /\ Sum(error) \in -MAX_SUM_ERROR..MAX_SUM_ERROR /\ Sum(error) \in Int
         /\ Fits(Speed(error))
<1>1. RANGE \in Nat /\ 50 <= RANGE /\ RANGE <= 1526
  BY RegulatorAssumption, SMT
<1>2. /\ error \in Int /\ -50 <= error /\ error <= 1476
      /\ previous_error \in Int /\ -50 <= previous_error /\ previous_error <= 1476
      /\ sum_error \in Int
  BY <1>1, SMT DEF RegulatorTypeOK, GOAL_DIST, MAX_SUM_ERROR
<1>3. /\ Sum(error) \in -MAX_SUM_ERROR..MAX_SUM_ERROR
      /\ Sum(error) \in Int
      /\ -MAX_SUM_ERROR <= Sum(error) /\ Sum(error) <= MAX_SUM_ERROR
  <2>1. sum_error + 7 * error \in Int
    BY <1>2, SMT
  <2>2. MAX_SUM_ERROR \in Nat
    BY DEF MAX_SUM_ERROR
  <2> QED
    BY <2>1, <2>2, CappedBounds DEF Sum
<1>4. Sum(error) \in Int /\ -5500 <= Sum(error) /\ Sum(error) <= 5500
  BY <1>3 DEF MAX_SUM_ERROR
<1>5. /\ Speed(error) \in Int
      /\ -163840 <= Speed(error) /\ Speed(error) <= 163839
  <2>1. PICK s \in Int : s = Sum(error)
    BY <1>4
  <2>2. Speed(error) = 100 * error + s + 7 * (error - previous_error)
    BY <2>1 DEF Speed
  <2>3. s <= 5500 /\ -5500 <= s
    BY <1>4, <2>1
  <2> QED
    BY <1>2, <2>2, <2>3, SMT
<1> QED
  BY <1>3, <1>5, TruncatedBounds

(* The last error is a number from -50 on.                                 *)
LEMMA LastErrorTyped ==
  ASSUME RegulatorTypeOK
  PROVE  previous_error \in Int /\ -50 <= previous_error
<1>1. RANGE \in Nat
  BY RegulatorAssumption, SMT
<1> QED
  BY <1>1, SMT DEF RegulatorTypeOK, GOAL_DIST

(* The error of the next iteration.                                        *)
LEMMA NextErrorBounds ==
  ASSUME RegulatorTypeOK
  PROVE  NextError \in -GOAL_DIST..(RANGE - GOAL_DIST)
<1>1. [previous_distance EXCEPT ![circular_buffer] = dist_mm]
         \in [0..(NB_SAMPLES - 1) -> Reading]
  BY DEF RegulatorTypeOK
<1>2. Mean([previous_distance EXCEPT ![circular_buffer] = dist_mm]) \in Reading
  BY <1>1, MeanIsReading
<1> QED
  BY <1>2, RegulatorAssumption, SMT DEF NextError, Reading, GOAL_DIST

(* The statics start at 0.                                                 *)
LEMMA StartTyped == RegulatorInit => RegulatorTypeOK
<1> SUFFICES ASSUME RegulatorInit PROVE RegulatorTypeOK
  OBVIOUS
<1>1. PICK d \in Start : distance = Mm(d) /\ dist_mm = d
  BY DEF RegulatorInit
<1>2. d \in 1..RANGE /\ RANGE \in Nat /\ 50 <= RANGE
  BY RegulatorAssumption, SMT
<1>3. distance \in Nat /\ dist_mm \in Reading
  BY <1>1, <1>2, SMT DEF Mm, Reading
<1>4. /\ sum_error \in -MAX_SUM_ERROR..MAX_SUM_ERROR
      /\ circular_buffer \in 0..(NB_SAMPLES - 1)
      /\ standing \in 0..(STABLE_DURATION + 1)
      /\ pursuit \in 1..PURSUITS
  BY RegulatorAssumption, SMT DEF RegulatorInit, MAX_SUM_ERROR, NB_SAMPLES
<1>8. InInt16(speed)
  BY SMT DEF RegulatorInit, InInt16, INT16_MAX
<1>9. previous_error \in -GOAL_DIST..(RANGE - GOAL_DIST)
  BY <1>1, <1>2, SMT DEF RegulatorInit, GOAL_DIST
<1>10. stable_time \in {Unset} \cup 0..(STABLE_DURATION + 1)
  BY DEF RegulatorInit
<1>5. previous_distance \in [0..(NB_SAMPLES - 1) -> Reading]
  BY RegulatorAssumption DEF RegulatorInit, NB_SAMPLES, Reading
<1>6. tof \in 1..TOF_PERIOD /\ phase \in {"compute", "move", "over"}
  BY DEF RegulatorInit
<1>7. enemy_moved \in BOOLEAN
  BY DEF RegulatorInit
<1> QED
  BY <1>3, <1>4, <1>5, <1>6, <1>7, <1>8, <1>9, <1>10 DEF RegulatorTypeOK

-----------------------------------------------------------------------------
(* The parts of an iteration.                                              *)

(* A reading goes into the window in its place.                            *)
LEMMA WindowTyped ==
  ASSUME RegulatorTypeOK, get_mean_distance_mm
  PROVE  /\ previous_distance' \in [0..(NB_SAMPLES - 1) -> Reading]
         /\ circular_buffer' \in 0..(NB_SAMPLES - 1)
  BY SMT DEF RegulatorTypeOK, get_mean_distance_mm, NB_SAMPLES

(* The regulator leaves its statics and the speed within their types.      *)
LEMMA SpeedTyped ==
  ASSUME RegulatorTypeOK, pid_regulator(NextError)
  PROVE  /\ InInt16(speed')
         /\ sum_error' \in -MAX_SUM_ERROR..MAX_SUM_ERROR
         /\ previous_error' \in -GOAL_DIST..(RANGE - GOAL_DIST)
<1>1. NextError \in -GOAL_DIST..(RANGE - GOAL_DIST)
  BY NextErrorBounds
<1>2. CASE Small(NextError)
  <2>1. speed' = 0 /\ UNCHANGED <<sum_error, previous_error>>
    BY <1>2 DEF pid_regulator
  <2>2. InInt16(speed')
    BY <2>1, SMT DEF InInt16, INT16_MAX
  <2> QED
    BY <2>1, <2>2 DEF RegulatorTypeOK
<1>3. CASE ~Small(NextError)
  <2>1. /\ sum_error' = Sum(NextError)
        /\ speed' \in Int16(Speed(NextError))
        /\ previous_error' = NextError
    BY <1>3 DEF pid_regulator
  <2>2. Fits(Speed(NextError)) /\ Sum(NextError) \in -MAX_SUM_ERROR..MAX_SUM_ERROR
    BY <1>1, SpeedFits
  <2>3. speed' = Truncated(Speed(NextError))
    BY <2>1, <2>2 DEF Int16
  <2> QED
    BY <1>1, <2>1, <2>2, <2>3 DEF Fits
<1> QED
  BY <1>2, <1>3

(* A clock stops when it has passed STABLE_DURATION.                       *)
LEMMA One_moreTyped ==
  ASSUME NEW n \in 0..(STABLE_DURATION + 1)
  PROVE  One_more(n) \in 0..(STABLE_DURATION + 1)
  BY RegulatorAssumption, SMT DEF One_more

(* Every step keeps the types.                                             *)
LEMMA StepTyped == RegulatorTypeOK /\ [RegulatorNext]_regulatorVars => RegulatorTypeOK'
<1> SUFFICES ASSUME RegulatorTypeOK, [RegulatorNext]_regulatorVars PROVE RegulatorTypeOK'
  OBVIOUS
<1>0. STABLE_DURATION \in Nat /\ RANGE \in Nat
  BY RegulatorAssumption, SMT
<1>1. CASE Iterate
  <2>1. get_mean_distance_mm /\ pid_regulator(NextError) /\ UNCHANGED world
    BY <1>1 DEF Iterate
  <2>2. /\ stable_time' \in {Unset} \cup 0..(STABLE_DURATION + 1)
        /\ phase' \in {"compute", "move", "over"}
        /\ standing' \in 0..(STABLE_DURATION + 1)
    BY <1>0, <1>1 DEF Iterate, RegulatorTypeOK
  <2> QED
    BY <2>1, <2>2, WindowTyped, SpeedTyped DEF RegulatorTypeOK, world
<1>2. CASE Move
  <2>1. UNCHANGED <<previous_distance, circular_buffer, sum_error, previous_error, speed,
                    enemy_moved, pursuit>> /\ phase' = "compute"
    BY <1>2 DEF Move
  <2>2. distance' \in Nat
    <3>1. speed \in Int /\ distance \in Int /\ MOTOR_SPEED_LIMIT \in Nat
      BY SMT DEF RegulatorTypeOK, InInt16, MOTOR_SPEED_LIMIT
    <3>2. PICK v \in Int : v = Capped(speed, MOTOR_SPEED_LIMIT)
      BY <3>1, CappedBounds
    <3> QED
      BY <1>2, <3>1, <3>2, SMT DEF Move
  <2>3. dist_mm' \in Reading
    <3>1. CASE tof = 1
      BY <1>0, <1>2, <2>2, <3>1, SMT DEF Move, Reading, Mm
    <3>2. CASE tof # 1
      BY <1>2, <3>2 DEF Move, RegulatorTypeOK
    <3> QED
      BY <3>1, <3>2
  <2>4. tof' \in 1..TOF_PERIOD
    BY <1>2, RegulatorAssumption, SMT DEF Move, RegulatorTypeOK
  <2>5. standing' \in 0..(STABLE_DURATION + 1)
    BY <1>2, One_moreTyped DEF Move, RegulatorTypeOK
  <2>6. stable_time' \in {Unset} \cup 0..(STABLE_DURATION + 1)
    <3>1. CASE stable_time = Unset
      BY <1>0, <1>2, <3>1, SMT DEF Move, Unset, One_more
    <3>2. CASE stable_time # Unset
      BY <1>2, <3>2, One_moreTyped DEF Move, RegulatorTypeOK
    <3> QED
      BY <3>1, <3>2
  <2> QED
    BY <2>1, <2>2, <2>3, <2>4, <2>5, <2>6 DEF RegulatorTypeOK, InInt16
<1>3. CASE EnemyMoves
  <2>1. PICK d \in Start : distance' = Mm(d)
    BY <1>3 DEF EnemyMoves
  <2>2. distance' \in Nat
    BY <2>1, RegulatorAssumption, SMT DEF Mm
  <2>3. enemy_moved' = TRUE
    BY <1>3 DEF EnemyMoves
  <2> QED
    BY <1>3, <2>2, <2>3 DEF EnemyMoves, RegulatorTypeOK, statics, InInt16
<1>4. CASE PursueAgain
  <2>1. PICK d \in Start : distance' = Mm(d) /\ dist_mm' = d
    BY <1>4 DEF PursueAgain
  <2>2. distance' \in Nat /\ dist_mm' \in Reading
    BY <2>1, RegulatorAssumption, SMT DEF Mm, Reading
  <2>3. InInt16(speed')
    BY <1>4, SMT DEF PursueAgain, InInt16, INT16_MAX
  <2>4. /\ stable_time' \in {Unset} \cup 0..(STABLE_DURATION + 1)
        /\ standing' \in 0..(STABLE_DURATION + 1)
    BY <1>0, <1>4, SMT DEF PursueAgain
  <2>5. pursuit' \in 1..PURSUITS
    BY <1>4, RegulatorAssumption, SMT DEF PursueAgain, RegulatorTypeOK
  <2>6. enemy_moved' = FALSE
    BY <1>4 DEF PursueAgain
  <2> QED
    BY <1>4, <2>2, <2>3, <2>4, <2>5, <2>6 DEF PursueAgain, RegulatorTypeOK
<1>5. CASE UNCHANGED regulatorVars
  BY <1>5 DEF regulatorVars, statics, world, RegulatorTypeOK, InInt16
<1> QED
  BY <1>1, <1>2, <1>3, <1>4, <1>5 DEF RegulatorNext

(* The regulator's variables keep their types, in all its pursuits.        *)
THEOREM RegulatorTyped == RegulatorSpec => []RegulatorTypeOK
<1> QED
  BY StartTyped, StepTyped, PTL DEF RegulatorSpec

(* Neither the sum of the window (pid_distance.c:30) nor the cast of the   *)
(* speed (line 64) overflows, for every range up to 1526 mm, whatever the  *)
(* enemy does and whatever an earlier pursuit has left in the statics.     *)
THEOREM NothingOverflows == RegulatorSpec => []ConversionsDefined
<1>1. RegulatorTypeOK => ConversionsDefined
  <2> SUFFICES ASSUME RegulatorTypeOK PROVE ConversionsDefined
    OBVIOUS
  <2>1. Total(previous_distance) < UINT16
    BY MeanIsReading DEF RegulatorTypeOK
  <2>2. Fits(Speed(NextError))
    BY NextErrorBounds, SpeedFits
  <2> QED
    BY <2>1, <2>2 DEF ConversionsDefined
<1> QED
  BY <1>1, RegulatorTyped, PTL

-----------------------------------------------------------------------------
(* The window.                                                             *)

(* How many iterations ago a reading came into the window, not counting    *)
(* the last one.                                                           *)
Place(i) == IF i < circular_buffer THEN circular_buffer - 1 - i ELSE circular_buffer + 9 - i

(* How many times the robot has moved since.                               *)
Age(i) == IF phase = "compute" THEN Place(i) + 1 ELSE Place(i)

(* The places are those of a ring. *)
LEMMA RingPlace ==
  ASSUME NEW i \in 0..9, NEW c \in 0..9
  PROVE  (IF i < c THEN c - 1 - i ELSE c + 9 - i) \in 0..9
  BY SMT

(* So are those of the window. *)
LEMMA PlaceTyped ==
  ASSUME RegulatorTypeOK, NEW i \in 0..9
  PROVE  Place(i) \in 0..9
<1>1. circular_buffer \in 0..9
  BY SMT DEF RegulatorTypeOK, NB_SAMPLES
<1> QED
  BY <1>1, SMT DEF Place

(* A reading comes into the window in place of the oldest; the others move *)
(* up.                                                                     *)
LEMMA WindowMoves ==
  ASSUME RegulatorTypeOK, get_mean_distance_mm, NEW i \in 0..9
  PROVE  /\ i = circular_buffer => previous_distance'[i] = dist_mm /\ Place(i)' = 0
         /\ i # circular_buffer => /\ previous_distance'[i] = previous_distance[i]
                                   /\ Place(i)' = Place(i) + 1
         /\ previous_distance' = [previous_distance EXCEPT ![circular_buffer] = dist_mm]
<1>1. circular_buffer \in 0..9 /\ previous_distance \in [0..9 -> Reading]
  BY SMT DEF RegulatorTypeOK, NB_SAMPLES
<1>2. circular_buffer' = IF circular_buffer = 9 THEN 0 ELSE circular_buffer + 1
  BY <1>1, SMT DEF get_mean_distance_mm, NB_SAMPLES
<1>3. previous_distance' = [previous_distance EXCEPT ![circular_buffer] = dist_mm]
  BY DEF get_mean_distance_mm
<1>4. /\ i = circular_buffer => previous_distance'[i] = dist_mm
      /\ i # circular_buffer => previous_distance'[i] = previous_distance[i]
  BY <1>1, <1>3
<1>5. /\ i = circular_buffer => Place(i)' = 0
      /\ i # circular_buffer => Place(i)' = Place(i) + 1
  BY <1>1, <1>2, SMT DEF Place
<1> QED
  BY <1>3, <1>4, <1>5

(* The mean of ten equal readings. *)
LEMMA MeanOfEqual ==
  ASSUME NEW w \in [0..(NB_SAMPLES - 1) -> Reading], NEW m \in Reading,
         \A i \in 0..9 : w[i] = m
  PROVE  Mean(w) = m
<1>1. Total(w) = 10 * m
  <2>1. /\ w[0] = m /\ w[1] = m /\ w[2] = m /\ w[3] = m /\ w[4] = m
        /\ w[5] = m /\ w[6] = m /\ w[7] = m /\ w[8] = m /\ w[9] = m
    BY SMT
  <2>2. m \in Int
    BY RegulatorAssumption, SMT DEF Reading
  <2> QED
    BY <2>1, <2>2, SMT DEF Total
<1>2. m \in Int /\ 0 <= m /\ m <= 1526
  BY RegulatorAssumption, SMT DEF Reading
<1>3. (10 * m) % 65536 = 10 * m
  BY <1>2, SMT
<1>4. (10 * m) \div 10 = m
  BY <1>2, SMT
<1> QED
  BY <1>1, <1>3, <1>4 DEF Mean, UINT16, NB_SAMPLES

-----------------------------------------------------------------------------
(* The strike.  Where the robot stands long enough, the window fills with  *)
(* one reading, that of where it stands.                                   *)

Millimetres == distance \div Mm(1)
StandingError == Millimetres - GOAL_DIST

(* Iterations for which the robot has stood when the last one was made.    *)
Stood == IF phase = "compute" THEN standing - 1 ELSE standing

(* Who stands has no speed, and in the first pursuit that is what          *)
(* stable_time has counted.                                                *)
StandInv ==
  /\ phase = "move" /\ standing > 0 => speed = 0
  /\ pursuit = 1 => \/ stable_time = standing
                    \/ stable_time = Unset /\ standing = 0 /\ phase = "compute"

(* The sensor sees where the robot stands after one period, the window is  *)
(* full of it after ten more iterations.  The enemy may still have moved   *)
(* in the first ten.                                                       *)
SeenInv ==
  /\ standing >= NB_SAMPLES + 1 /\ TOF_PERIOD - tof <= standing - NB_SAMPLES - 1
       => dist_mm = Millimetres
  /\ \A i \in 0..9 :
       standing - Age(i) >= TOF_PERIOD + NB_SAMPLES => previous_distance[i] = Millimetres

(* The error is then small: otherwise the sum would grow, and the speed    *)
(* could not be 0 three times.                                             *)
ErrorInv ==
  /\ Stood >= TOF_PERIOD + 19 => Small(StandingError) \/ previous_error = StandingError
  /\ Stood >= TOF_PERIOD + 20 =>
       \/ Small(StandingError)
       \/ /\ -5 < 100 * StandingError + sum_error
          /\ 100 * StandingError + sum_error < 5
  /\ Stood >= TOF_PERIOD + 21 => Small(StandingError)

StrikeInv == StandInv /\ SeenInv /\ ErrorInv

(* What is measured when nothing moves.                                    *)
LEMMA MoveStands ==
  ASSUME RegulatorTypeOK, StandInv, Move, standing > 0
  PROVE  distance' = distance
<1>1. speed = 0
  BY DEF StandInv, Move
<1>2. Capped(speed, MOTOR_SPEED_LIMIT) = 0
  BY <1>1, SMT DEF Capped, MOTOR_SPEED_LIMIT
<1>3. distance \in Nat
  BY DEF RegulatorTypeOK
<1> QED
  BY <1>2, <1>3, SMT DEF Move

(* Standing is counted, up to what is more than is asked for. *)
LEMMA MoveCounts ==
  ASSUME RegulatorTypeOK, Move
  PROVE  /\ standing \in Nat /\ standing' \in Nat
         /\ standing <= standing' /\ standing' <= standing + 1 /\ standing' >= 1
<1>1. standing \in 0..(STABLE_DURATION + 1) /\ STABLE_DURATION \in Nat
  BY RegulatorAssumption, SMT DEF RegulatorTypeOK
<1> QED
  BY <1>1, SMT DEF Move, One_more

(* The counts, step by step. *)
LEMMA StandStep ==
  ASSUME RegulatorTypeOK, StandInv, [RegulatorNext]_regulatorVars
  PROVE  StandInv'
<1>1. CASE Iterate
  <2>1. pursuit' = pursuit /\ phase = "compute"
    BY <1>1 DEF Iterate, world
  <2>2. CASE speed' = 0
    <3>1. /\ stable_time' = IF stable_time = Unset THEN 0 ELSE stable_time
          /\ standing' = standing
      BY <1>1, <2>2 DEF Iterate
    <3>2. standing \in Nat
      BY RegulatorAssumption, SMT DEF RegulatorTypeOK
    <3> QED
      BY <2>1, <2>2, <3>1, <3>2, SMT DEF StandInv, Unset
  <2>3. CASE speed' # 0
    <3>1. stable_time' = 0 /\ standing' = 0
      BY <1>1, <2>3 DEF Iterate
    <3> QED
      BY <2>1, <3>1, SMT DEF StandInv
  <2> QED
    BY <2>2, <2>3
<1>2. CASE Move
  <2>1. /\ phase = "move" /\ phase' = "compute" /\ pursuit' = pursuit
        /\ stable_time' = One_more(stable_time) /\ standing' = One_more(standing)
    BY <1>2 DEF Move
  <2> QED
    BY <2>1 DEF StandInv
<1>3. CASE EnemyMoves
  BY <1>3 DEF EnemyMoves, StandInv, statics
<1>4. CASE PursueAgain
  <2>1. pursuit' # 1 /\ phase' = "compute"
    BY <1>4, SMT DEF PursueAgain, RegulatorTypeOK
  <2> QED
    BY <2>1 DEF StandInv
<1>5. CASE UNCHANGED regulatorVars
  BY <1>5 DEF regulatorVars, statics, world, StandInv
<1> QED
  BY <1>1, <1>2, <1>3, <1>4, <1>5 DEF RegulatorNext

(* The age of the measurement and the time that the robot has stood grow   *)
(* together.                                                               *)
LEMMA LagGrows ==
  ASSUME NEW p \in Nat, NEW t \in Nat, t - 1 \in Nat, t <= p,
         NEW s \in Nat, NEW v \in Nat, v <= s + 1,
         v >= 10 + 1, p - (t - 1) <= v - 10 - 1
  PROVE  s >= 10 + 1 /\ p - t <= s - 10 - 1 /\ s > 0
<1>1. s >= v - 1 /\ p - t <= v - 12
  BY SMT
<1> QED
  BY <1>1, SMT

(* What the sensor and the window have seen, step by step. *)
LEMMA SeenStep ==
  ASSUME RegulatorTypeOK, StandInv, SeenInv, [RegulatorNext]_regulatorVars
  PROVE  SeenInv'
<1>0. /\ TOF_PERIOD \in Nat /\ TOF_PERIOD >= 1 /\ standing \in Nat
      /\ tof \in Nat /\ 1 <= tof /\ tof <= TOF_PERIOD
  BY RegulatorAssumption, SMT DEF RegulatorTypeOK
<1>1. CASE Iterate
  <2>1. /\ phase = "compute" /\ phase' # "compute" /\ get_mean_distance_mm
        /\ distance' = distance /\ dist_mm' = dist_mm /\ tof' = tof
    <3>1. phase' # "compute"
      BY <1>1 DEF Iterate
    <3> QED
      BY <1>1, <3>1 DEF Iterate, world
  <2>2. standing' = standing \/ standing' = 0
    BY <1>1 DEF Iterate
  <2>3. Millimetres' = Millimetres
    BY <2>1 DEF Millimetres
  <2>4. ASSUME NEW i \in 0..9, standing' - Age(i)' >= TOF_PERIOD + NB_SAMPLES
        PROVE  previous_distance'[i] = Millimetres'
    <3>1. Age(i) = Place(i) + 1 /\ Age(i)' = Place(i)' /\ Place(i) \in 0..9
      BY <2>1, PlaceTyped DEF Age
    <3>2. CASE i = circular_buffer
      <4>1. previous_distance'[i] = dist_mm /\ Age(i)' = 0
        BY <2>1, <3>1, <3>2, WindowMoves
      <4>2. standing >= NB_SAMPLES + 1 /\ TOF_PERIOD - tof <= standing - NB_SAMPLES - 1
        BY <1>0, <2>2, <2>4, <4>1, SMT DEF NB_SAMPLES
      <4> QED
        BY <2>3, <4>1, <4>2 DEF SeenInv
    <3>3. CASE i # circular_buffer
      <4>1. previous_distance'[i] = previous_distance[i] /\ Age(i)' = Age(i)
        BY <2>1, <3>1, <3>3, WindowMoves
      <4>2. standing - Age(i) >= TOF_PERIOD + NB_SAMPLES
        BY <1>0, <2>2, <2>4, <3>1, <4>1, SMT DEF NB_SAMPLES
      <4> QED
        BY <2>3, <4>1, <4>2 DEF SeenInv
    <3> QED
      BY <3>2, <3>3
  <2>5. standing' >= NB_SAMPLES + 1 /\ TOF_PERIOD - tof' <= standing' - NB_SAMPLES - 1
          => dist_mm' = Millimetres'
    BY <1>0, <2>1, <2>2, <2>3, SMT DEF SeenInv, NB_SAMPLES
  <2> QED
    BY <2>4, <2>5 DEF SeenInv
<1>2. CASE Move
  <2>1. /\ phase = "move" /\ phase' = "compute" /\ circular_buffer' = circular_buffer
        /\ previous_distance' = previous_distance
    BY <1>2 DEF Move
  <2>2. /\ standing' \in Nat /\ standing <= standing' /\ standing' <= standing + 1
    BY <1>2, MoveCounts
  <2>3. standing > 0 => Millimetres' = Millimetres
    BY <1>2, MoveStands DEF Millimetres
  <2>4. ASSUME NEW i \in 0..9, standing' - Age(i)' >= TOF_PERIOD + NB_SAMPLES
        PROVE  previous_distance'[i] = Millimetres'
    <3>1. Age(i)' = Age(i) + 1 /\ Age(i) \in 0..9
      BY <2>1, PlaceTyped DEF Age, Place
    <3>2. standing - Age(i) >= TOF_PERIOD + NB_SAMPLES /\ standing > 0
      BY <1>0, <2>2, <2>4, <3>1, SMT DEF NB_SAMPLES
    <3> QED
      BY <2>1, <2>3, <3>2 DEF SeenInv
  <2>5. ASSUME standing' >= NB_SAMPLES + 1,
               TOF_PERIOD - tof' <= standing' - NB_SAMPLES - 1
        PROVE  dist_mm' = Millimetres'
    <3>1. CASE tof = 1
      BY <1>2, <3>1 DEF Move, Millimetres
    <3>2. CASE tof # 1
      <4>1. tof' = tof - 1 /\ dist_mm' = dist_mm
        BY <1>2, <3>2 DEF Move
      <4>2. tof - 1 \in Nat
        BY <1>0, SMT
      <4>3. /\ standing >= NB_SAMPLES + 1 /\ TOF_PERIOD - tof <= standing - NB_SAMPLES - 1
            /\ standing > 0
        BY <1>0, <2>2, <2>5, <4>1, <4>2, LagGrows DEF NB_SAMPLES
      <4> QED
        BY <2>3, <4>1, <4>3 DEF SeenInv
    <3> QED
      BY <3>1, <3>2
  <2> QED
    BY <2>4, <2>5 DEF SeenInv
<1>3. CASE EnemyMoves
  <2>1. standing' = 10
    BY <1>3 DEF EnemyMoves, NB_SAMPLES
  <2>2. ASSUME NEW i \in 0..9
        PROVE  ~(standing' - Age(i)' >= TOF_PERIOD + NB_SAMPLES)
    <3>1. Age(i)' \in 0..9
      BY <1>3, PlaceTyped DEF EnemyMoves, Age, Place, statics
    <3> QED
      BY <1>0, <2>1, <3>1, SMT DEF NB_SAMPLES
  <2>3. ~(standing' >= NB_SAMPLES + 1)
    BY <2>1, SMT DEF NB_SAMPLES
  <2> QED
    BY <2>2, <2>3 DEF SeenInv
<1>4. CASE PursueAgain
  <2>1. /\ standing' = 0 /\ phase' = "compute" /\ circular_buffer' = circular_buffer
    BY <1>4 DEF PursueAgain
  <2>2. ASSUME NEW i \in 0..9
        PROVE  ~(standing' - Age(i)' >= TOF_PERIOD + NB_SAMPLES)
    <3>1. Age(i)' = Place(i) + 1 /\ Place(i) \in 0..9
      BY <2>1, PlaceTyped DEF Age, Place
    <3> QED
      BY <1>0, <2>1, <3>1, SMT DEF NB_SAMPLES
  <2>3. ~(standing' >= NB_SAMPLES + 1)
    BY <2>1, SMT DEF NB_SAMPLES
  <2> QED
    BY <2>2, <2>3 DEF SeenInv
<1>5. CASE UNCHANGED regulatorVars
  BY <1>5 DEF regulatorVars, statics, world, SeenInv, Millimetres, Age, Place
<1> QED
  BY <1>1, <1>2, <1>3, <1>4, <1>5 DEF RegulatorNext

(* The window is full of where the robot stands, and so the error is that. *)
LEMMA FullWindow ==
  ASSUME RegulatorTypeOK, SeenInv, SeenInv', Iterate, standing' >= TOF_PERIOD + 19
  PROVE  /\ NextError = StandingError /\ StandingError' = StandingError
         /\ StandingError \in Int /\ -50 <= StandingError
<1>1. /\ get_mean_distance_mm /\ phase' # "compute" /\ distance' = distance
      /\ circular_buffer' \in 0..9
  <2>1. get_mean_distance_mm /\ phase' # "compute" /\ distance' = distance
    <3>1. phase' # "compute"
      BY DEF Iterate
    <3> QED
      BY <3>1 DEF Iterate, world
  <2> QED
    BY <2>1, WindowTyped, SMT DEF NB_SAMPLES
<1>2. standing' \in Nat /\ TOF_PERIOD \in Nat
  BY RegulatorAssumption, SMT DEF RegulatorTypeOK, Iterate
<1>3. Millimetres' = Millimetres /\ StandingError' = StandingError
  BY <1>1 DEF Millimetres, StandingError
<1>4. ASSUME NEW i \in 0..9
      PROVE  previous_distance'[i] = Millimetres
  <2>1. Age(i)' \in 0..9
    <3>1. Age(i)' = Place(i)'
      BY <1>1 DEF Age
    <3>2. Place(i)' \in 0..9
      BY <1>1, RingPlace DEF Place
    <3> QED
      BY <3>1, <3>2
  <2>2. standing' - Age(i)' >= TOF_PERIOD + NB_SAMPLES
    BY <1>2, <2>1, SMT DEF NB_SAMPLES
  <2> QED
    BY <1>3, <2>2 DEF SeenInv
<1>5. previous_distance' \in [0..(NB_SAMPLES - 1) -> Reading]
  BY <1>1, WindowTyped
<1>6. Millimetres \in Reading
  BY <1>4, <1>5, SMT DEF NB_SAMPLES
<1>7. Mean(previous_distance') = Millimetres
  BY <1>4, <1>5, <1>6, MeanOfEqual
<1>8. NextError = StandingError
  BY <1>1, <1>7 DEF NextError, StandingError, get_mean_distance_mm
<1>9. StandingError \in Int /\ -50 <= StandingError
  BY <1>6, RegulatorAssumption, SMT DEF StandingError, GOAL_DIST, Reading
<1> QED
  BY <1>3, <1>8, <1>9

(* What is cut to 0. *)
LEMMA TruncatedZero ==
  ASSUME NEW n \in Int, Truncated(n) = 0
  PROVE  -5 < n /\ n < 5
<1>1. CASE n >= 0
  BY <1>1, SMT DEF Truncated
<1>2. CASE ~(n >= 0)
  <2>1. PICK m \in Int : m = -n
    BY SMT
  <2>2. -(m \div 5) = 0
    BY <1>2, <2>1 DEF Truncated
  <2>3. m < 5
    BY <1>2, <2>1, <2>2, SMT
  <2> QED
    BY <1>2, <2>1, <2>3, SMT
<1> QED
  BY <1>1, <1>2

(* With the same large error, the regulator does not stay at 0: the sum of *)
(* errors grows by more than is cut off.                                   *)
LEMMA SumGrows ==
  ASSUME NEW e \in Int, -50 <= e, ~Small(e), sum_error \in -MAX_SUM_ERROR..MAX_SUM_ERROR,
         -5 < 100 * e + sum_error, 100 * e + sum_error < 5
  PROVE  ~(-5 < 100 * e + Sum(e) /\ 100 * e + Sum(e) < 5)
<1>1. e >= 20 \/ e <= -20
  BY SMT DEF Small, ERROR_THRESHOLD
<1>2. sum_error \in Int /\ -5500 <= sum_error /\ sum_error <= 5500
  BY SMT DEF MAX_SUM_ERROR
<1>3. Sum(e) = sum_error + 7 * e
  <2>1. ~(sum_error + 7 * e > 5500) /\ ~(sum_error + 7 * e < -5500)
    BY <1>1, <1>2, SMT
  <2> QED
    BY <2>1 DEF Sum, Capped, MAX_SUM_ERROR
<1> QED
  BY <1>1, <1>2, <1>3, SMT

(* The error, step by step. *)
LEMMA ErrorStep ==
  ASSUME RegulatorTypeOK, StandInv, SeenInv, SeenInv', ErrorInv,
         [RegulatorNext]_regulatorVars
  PROVE  ErrorInv'
<1>0. /\ TOF_PERIOD \in Nat /\ TOF_PERIOD >= 1 /\ standing \in Nat
  BY RegulatorAssumption, SMT DEF RegulatorTypeOK
<1>1. CASE Iterate
  <2>1. phase = "compute" /\ phase' # "compute"
    <3>1. phase' # "compute"
      BY <1>1 DEF Iterate
    <3> QED
      BY <1>1, <3>1 DEF Iterate
  <2>2. Stood = standing - 1 /\ Stood' = standing'
    BY <2>1 DEF Stood
  <2>3. CASE speed' # 0
    <3>1. standing' = 0
      BY <1>1, <2>3 DEF Iterate
    <3> QED
      BY <1>0, <2>2, <3>1, SMT DEF ErrorInv
  <2>4. CASE speed' = 0 /\ ~(standing' >= TOF_PERIOD + 19)
    <3>1. standing' = standing
      BY <1>1, <2>4 DEF Iterate
    <3> QED
      BY <1>0, <2>2, <2>4, <3>1, SMT DEF ErrorInv
  <2>5. CASE speed' = 0 /\ standing' >= TOF_PERIOD + 19
    <3>1. /\ NextError = StandingError /\ StandingError' = StandingError
          /\ StandingError \in Int /\ -50 <= StandingError
      BY <1>1, <2>5, FullWindow
    <3>2. standing' = standing
      BY <1>1, <2>5 DEF Iterate
    <3>3. CASE Small(StandingError)
      BY <3>1, <3>3 DEF ErrorInv, Small
    <3>4. CASE ~Small(StandingError)
      <4>1. pid_regulator(StandingError)
        BY <1>1, <3>1 DEF Iterate
      <4>2. /\ sum_error' = Sum(StandingError) /\ previous_error' = StandingError
            /\ 0 \in Int16(Speed(StandingError))
        BY <2>5, <3>4, <4>1 DEF pid_regulator
      <4>3. StandingError \in -GOAL_DIST..(RANGE - GOAL_DIST)
        BY <3>1, NextErrorBounds
      <4>4. /\ Fits(Speed(StandingError))
            /\ Sum(StandingError) \in Int
        BY <4>3, SpeedFits
      <4>5. Truncated(Speed(StandingError)) = 0
        BY <4>2, <4>4 DEF Int16
      <4>6. Sum(StandingError) \in Int /\ previous_error \in Int
        BY <4>4, LastErrorTyped
      <4>7. previous_error = StandingError =>
              /\ -5 < 100 * StandingError + Sum(StandingError)
              /\ 100 * StandingError + Sum(StandingError) < 5
        <5>1. SUFFICES ASSUME previous_error = StandingError
                       PROVE  /\ -5 < 100 * StandingError + Sum(StandingError)
                              /\ 100 * StandingError + Sum(StandingError) < 5
          OBVIOUS
        <5>2. Speed(StandingError) = 100 * StandingError + Sum(StandingError)
          BY <3>1, <4>6, <5>1, SMT DEF Speed
        <5>3. 100 * StandingError + Sum(StandingError) \in Int
          BY <3>1, <4>6, SMT
        <5> QED
          BY <4>5, <5>2, <5>3, TruncatedZero
      <4>8. Stood' >= TOF_PERIOD + 20 => previous_error = StandingError
        BY <1>0, <2>2, <3>2, <3>4, SMT DEF ErrorInv
      <4>9. ~(Stood' >= TOF_PERIOD + 21)
        <5>1. SUFFICES ASSUME Stood' >= TOF_PERIOD + 21 PROVE FALSE
          OBVIOUS
        <5>2. Stood' >= TOF_PERIOD + 20 /\ Stood >= TOF_PERIOD + 20
          BY <1>0, <2>2, <3>2, <5>1, SMT
        <5>3. -5 < 100 * StandingError + sum_error /\ 100 * StandingError + sum_error < 5
          BY <3>4, <5>2 DEF ErrorInv
        <5>4. sum_error \in -MAX_SUM_ERROR..MAX_SUM_ERROR
          BY DEF RegulatorTypeOK
        <5> QED
          BY <3>1, <3>4, <4>7, <4>8, <5>2, <5>3, <5>4, SumGrows
      <4> QED
        BY <3>1, <4>2, <4>7, <4>8, <4>9, Zenon DEF ErrorInv
    <3> QED
      BY <3>3, <3>4
  <2> QED
    BY <2>3, <2>4, <2>5
<1>2. CASE Move
  <2>1. /\ phase = "move" /\ phase' = "compute"
        /\ sum_error' = sum_error /\ previous_error' = previous_error
    BY <1>2 DEF Move
  <2>2. standing' \in Nat /\ standing <= standing' /\ standing' <= standing + 1
    BY <1>2, MoveCounts
  <2>3. Stood = standing /\ Stood' = standing' - 1
    BY <2>1 DEF Stood
  <2>4. Stood' \in Int /\ Stood \in Int /\ Stood' <= Stood /\ Stood' <= standing
    <3>1. \A m, n \in Nat : n <= m + 1 => n - 1 \in Int /\ m \in Int /\ n - 1 <= m
      BY SMT
    <3> QED
      BY <1>0, <2>2, <2>3, <3>1
  <2>5. CASE standing > 0
    <3>1. StandingError' = StandingError
      BY <1>2, <2>5, MoveStands DEF StandingError, Millimetres
    <3>2. Small(StandingError)' <=> Small(StandingError)
      BY <3>1 DEF Small
    <3>3. /\ Stood' >= TOF_PERIOD + 19 => Stood >= TOF_PERIOD + 19
          /\ Stood' >= TOF_PERIOD + 20 => Stood >= TOF_PERIOD + 20
          /\ Stood' >= TOF_PERIOD + 21 => Stood >= TOF_PERIOD + 21
      BY <1>0, <2>4, SMT
    <3> QED
      BY <2>1, <3>1, <3>2, <3>3, Zenon DEF ErrorInv
  <2>6. CASE ~(standing > 0)
    <3>1. Stood' < TOF_PERIOD
      BY <1>0, <2>4, <2>6, SMT
    <3> QED
      BY <1>0, <2>4, <3>1, SMT DEF ErrorInv
  <2> QED
    BY <2>5, <2>6
<1>3. CASE EnemyMoves
  <2>1. Stood' = 10
    BY <1>3 DEF EnemyMoves, Stood, NB_SAMPLES
  <2> QED
    BY <1>0, <2>1, SMT DEF ErrorInv
<1>4. CASE PursueAgain
  <2>1. Stood' = -1
    BY <1>4, SMT DEF PursueAgain, Stood
  <2> QED
    BY <1>0, <2>1, SMT DEF ErrorInv
<1>5. CASE UNCHANGED regulatorVars
  <2>1. /\ Stood' = Stood /\ StandingError' = StandingError
        /\ sum_error' = sum_error /\ previous_error' = previous_error
    BY <1>5 DEF regulatorVars, statics, world, Stood, StandingError, Millimetres
  <2>2. Small(StandingError)' <=> Small(StandingError)
    BY <2>1 DEF Small
  <2> QED
    BY <2>1, <2>2, Zenon DEF ErrorInv
<1> QED
  BY <1>1, <1>2, <1>3, <1>4, <1>5 DEF RegulatorNext

(* A pursuit is over when stable_time says so. *)
OverLate == phase = "over" => stable_time > STABLE_DURATION

(* Which only an iteration finds. *)
LEMMA OverLateStep ==
  ASSUME RegulatorTypeOK, OverLate, [RegulatorNext]_regulatorVars
  PROVE  OverLate'
<1>1. CASE Iterate
  BY <1>1 DEF Iterate, OverLate
<1>2. CASE Move
  BY <1>2 DEF Move, OverLate
<1>3. CASE EnemyMoves
  BY <1>3 DEF EnemyMoves, OverLate, statics
<1>4. CASE PursueAgain
  BY <1>4 DEF PursueAgain, OverLate
<1>5. CASE UNCHANGED regulatorVars
  BY <1>5 DEF regulatorVars, statics, OverLate
<1> QED
  BY <1>1, <1>2, <1>3, <1>4, <1>5 DEF RegulatorNext

(* StrikesAtGoal: in its first pursuit the robot strikes at the distance   *)
(* it is told to keep, wherever the enemy stands and wherever it goes when *)
(* the robot has caught up, provided that STABLE_DURATION is longer than   *)
(* the sensor and the window take to show where the robot stands.  With    *)
(* the code's 60 iterations the sensor may take up to 40.                  *)
THEOREM StrikesThere ==
  ASSUME STABLE_DURATION >= TOF_PERIOD + 2 * NB_SAMPLES
  PROVE  RegulatorSpec => []StrikesAtGoal
<1>1. RegulatorInit => StrikeInv
  <2> SUFFICES ASSUME RegulatorInit PROVE StrikeInv
    OBVIOUS
  <2>1. TOF_PERIOD \in Nat /\ TOF_PERIOD >= 1
    BY RegulatorAssumption, SMT
  <2>2. /\ standing = 0 /\ phase = "compute" /\ stable_time = Unset
        /\ circular_buffer = 0
    BY DEF RegulatorInit
  <2>3. StandInv
    BY <2>2 DEF StandInv
  <2>4. ASSUME NEW i \in 0..9
        PROVE  ~(standing - Age(i) >= TOF_PERIOD + NB_SAMPLES)
    <3>1. Place(i) \in 0..9 /\ Age(i) = Place(i) + 1
      BY <2>2, RingPlace DEF Place, Age
    <3> QED
      BY <2>1, <2>2, <3>1, SMT DEF NB_SAMPLES
  <2>5. SeenInv
    BY <2>2, <2>4, SMT DEF SeenInv, NB_SAMPLES
  <2>6. Stood = -1
    BY <2>2, SMT DEF Stood
  <2>7. ErrorInv
    BY <2>1, <2>6, SMT DEF ErrorInv
  <2> QED
    BY <2>3, <2>5, <2>7 DEF StrikeInv
<1>2. RegulatorTypeOK /\ StrikeInv /\ [RegulatorNext]_regulatorVars => StrikeInv'
  <2> SUFFICES ASSUME RegulatorTypeOK, StrikeInv, [RegulatorNext]_regulatorVars
               PROVE  StrikeInv'
    OBVIOUS
  <2>1. StandInv' /\ SeenInv'
    BY StandStep, SeenStep DEF StrikeInv
  <2>2. ErrorInv'
    BY <2>1, ErrorStep DEF StrikeInv
  <2> QED
    BY <2>1, <2>2 DEF StrikeInv
<1>3. OverLate /\ RegulatorTypeOK /\ StrikeInv => StrikesAtGoal
  <2> SUFFICES ASSUME OverLate, RegulatorTypeOK, StrikeInv, phase = "over", pursuit = 1
               PROVE  /\ Mm(GOAL_DIST - ERROR_THRESHOLD) < distance
                      /\ distance < Mm(GOAL_DIST + ERROR_THRESHOLD + 1)
    BY DEF StrikesAtGoal
  <2>1. stable_time > STABLE_DURATION /\ stable_time = standing
    BY DEF OverLate, StrikeInv, StandInv
  <2>2. Stood = standing /\ standing \in Nat
    BY RegulatorAssumption DEF Stood, RegulatorTypeOK
  <2>3. Stood >= TOF_PERIOD + 21
    BY <2>1, <2>2, RegulatorAssumption, SMT DEF NB_SAMPLES
  <2>4. Small(StandingError)
    BY <2>3 DEF StrikeInv, ErrorInv
  <2>5. distance \in Nat /\ distance \div 10000 \in Nat
    BY SMT DEF RegulatorTypeOK
  <2>6. -20 < distance \div 10000 - 50 /\ distance \div 10000 - 50 < 20
    BY <2>4, <2>5, SMT DEF Small, StandingError, Millimetres, Mm, GOAL_DIST, ERROR_THRESHOLD
  <2>7. 300000 < distance /\ distance < 710000
    BY <2>5, <2>6, SMT
  <2> QED
    BY <2>7, SMT DEF Mm, GOAL_DIST, ERROR_THRESHOLD
<1>4. RegulatorInit => OverLate
  BY DEF RegulatorInit, OverLate
<1>5. RegulatorTypeOK /\ OverLate /\ [RegulatorNext]_regulatorVars => OverLate'
  BY OverLateStep
<1> QED
  BY <1>1, <1>2, <1>3, <1>4, <1>5, RegulatorTyped, PTL DEF RegulatorSpec

-----------------------------------------------------------------------------
(* No run into the enemy.  Two things may carry the robot on when the      *)
(* enemy is near: readings that are old, for as long as these are in the   *)
(* window, and then the sum of errors, until that is worked off.           *)

(* The way of the robot in one iteration, at most. *)
Stride == 13 * MOTOR_SPEED_LIMIT

(* The way that the sum of errors may carry it, at most. *)
WINDUP == 123033

(* How far away an enemy has to turn up: 40 mm with TOF_PERIOD = 10.       *)
Near == Stride * (TOF_PERIOD + NB_SAMPLES - 1) + WINDUP

TurnsUpFarEnough == TOF_PERIOD <= 31 /\ \A d \in Start : Near <= Mm(d)

(* Enough road for what the sum may still do while the error is -20 or     *)
(* less: from 1930 on the speed may be positive, and each iteration takes  *)
(* 140 of the sum.                                                         *)
Clear(d, sum) ==
  /\ d > 0
  /\ sum >= 1930 => 13 * ((sum - 1860) * (sum - 1860)) < 1400 * d

(* Where the robot is after this iteration's move.                         *)
Next_distance ==
  IF phase = "move" THEN distance - 13 * Capped(speed, MOTOR_SPEED_LIMIT) ELSE distance

ClearInv == distance > 0 /\ Clear(Next_distance, sum_error)

(* A reading of 70 mm or more, after which the robot would drive on, was   *)
(* true some moves ago; or the enemy has turned up since.                  *)
Told(reading, moves) == reading >= 70 => distance >= Near - Stride * moves

ToldInv ==
  /\ Told(dist_mm, TOF_PERIOD - tof)
  /\ \A i \in 0..9 : Told(previous_distance[i], TOF_PERIOD - 1 + Age(i))

RunInv == ClearInv /\ ToldInv

(* Squares grow. *)
LEMMA SquareGrows ==
  ASSUME NEW a \in Nat, NEW b \in Nat, a <= b
  PROVE  a * a <= b * b
<1>1. PICK c \in Nat : b = a + c
  <2>1. b - a \in Nat /\ b = a + (b - a)
    BY SMT
  <2> QED
    BY <2>1
<1>2. b * b = a * a + (2 * (a * c) + c * c)
  BY <1>1, SMT
<1>3. a * c \in Nat /\ c * c \in Nat /\ a * a \in Nat
  BY SMT
<1> QED
  BY <1>2, <1>3, SMT

(* More road and a smaller sum are better. *)
LEMMA ClearBetter ==
  ASSUME NEW d \in Int, NEW e \in Int, NEW s \in Int, NEW t \in Int,
         d <= e, t <= s, Clear(d, s)
  PROVE  Clear(e, t)
<1>1. e > 0
  BY SMT DEF Clear
<1>2. ASSUME t >= 1930
      PROVE  13 * ((t - 1860) * (t - 1860)) < 1400 * e
  <2>1. t - 1860 \in Nat /\ s - 1860 \in Nat /\ t - 1860 <= s - 1860
    BY <1>2, SMT
  <2>2. PICK a \in Nat, b \in Nat : a = t - 1860 /\ b = s - 1860 /\ a <= b
    BY <2>1
  <2>3. a * a <= b * b /\ a * a \in Nat /\ b * b \in Nat
    BY <2>2, SquareGrows, SMT
  <2>4. s >= 1930
    BY <1>2, SMT
  <2>5. 13 * (b * b) < 1400 * d
    BY <2>2, <2>4 DEF Clear
  <2>6. 13 * (a * a) < 1400 * e
    BY <2>3, <2>5, SMT
  <2> QED
    BY <2>2, <2>6
<1> QED
  BY <1>1, <1>2 DEF Clear

(* A move with what the sum gives, when it falls by 140.                   *)
LEMMA ClearMove ==
  ASSUME NEW d \in Int, NEW s \in Int, NEW f \in Int, NEW t \in Int,
         s >= 1930, Clear(d, s), 5 * (d - f) <= 13 * (s - 1930), t <= s - 140
  PROVE  Clear(f, t)
<1>1. PICK b \in Nat : b = s - 1860 /\ b >= 70
  <2>1. s - 1860 \in Nat /\ s - 1860 >= 70
    BY SMT
  <2> QED
    BY <2>1
<1>2. 13 * (b * b) < 1400 * d
  BY <1>1 DEF Clear
<1>3. PICK c \in Int : c = b - 140
  BY <1>1, SMT
<1>4. b * b = c * c + (280 * b - 19600)
  <2>1. b = c + 140
    BY <1>1, <1>3, SMT
  <2>2. (c + 140) * (c + 140) = c * c + 280 * c + 19600
    BY <1>3, SMT
  <2> QED
    BY <1>3, <2>1, <2>2, SMT
<1>5. c * c \in Int /\ 0 <= c * c /\ b * b \in Int
  <2>1. CASE c >= 0
    BY <1>3, <2>1, SMT
  <2>2. CASE ~(c >= 0)
    <3>1. -c \in Nat /\ (-c) * (-c) = c * c
      BY <1>3, <2>2, SMT
    <3> QED
      BY <3>1, SMT
  <2> QED
    BY <2>1, <2>2
<1>6. 13 * (c * c) < 1400 * f
  <2>1. PICK m \in Int, n \in Int : m = b * b /\ n = c * c
    BY <1>5
  <2>2. m = n + 280 * b - 19600 /\ 13 * m < 1400 * d
    BY <1>2, <1>4, <2>1, SMT
  <2>3. 5 * (d - f) <= 13 * (b - 70)
    BY <1>1, SMT
  <2>4. 13 * n < 1400 * f
    BY <1>1, <2>1, <2>2, <2>3, SMT
  <2> QED
    BY <2>1, <2>4
<1>7. f > 0
  <2>1. PICK n \in Int : n = c * c /\ 0 <= n
    BY <1>5
  <2>2. 13 * n < 1400 * f
    BY <1>6, <2>1
  <2> QED
    BY <2>1, <2>2, SMT
<1>8. ASSUME t >= 1930
      PROVE  13 * ((t - 1860) * (t - 1860)) < 1400 * f
  <2>1. PICK a \in Nat : a = t - 1860
    <3>1. t - 1860 \in Nat
      BY <1>8, SMT
    <3> QED
      BY <3>1
  <2>2. c \in Nat /\ a <= c
    BY <1>1, <1>3, <1>8, <2>1, SMT
  <2>3. a * a <= c * c /\ a * a \in Int
    BY <2>2, SquareGrows, SMT
  <2>4. PICK m \in Int, n \in Int : m = a * a /\ n = c * c /\ m <= n
    BY <1>5, <2>3
  <2>5. 13 * n < 1400 * f
    BY <1>6, <2>4
  <2>6. 13 * m < 1400 * f
    BY <2>4, <2>5, SMT
  <2> QED
    BY <2>1, <2>4, <2>6
<1> QED
  BY <1>7, <1>8 DEF Clear

(* With WINDUP ahead the road is clear whatever the sum is.                *)
LEMMA ClearAtWindup ==
  ASSUME NEW d \in Int, d >= WINDUP, NEW s \in Int, s <= MAX_SUM_ERROR
  PROVE  Clear(d, s)
<1>1. d > 0
  BY SMT DEF WINDUP
<1>2. ASSUME s >= 1930
      PROVE  13 * ((s - 1860) * (s - 1860)) < 1400 * d
  <2>1. PICK a \in Nat : a = s - 1860 /\ a <= 3640
    <3>1. s - 1860 \in Nat /\ s - 1860 <= 3640
      BY <1>2, SMT DEF MAX_SUM_ERROR
    <3> QED
      BY <3>1
  <2>2. a * a <= 3640 * 3640 /\ a * a \in Nat
    BY <2>1, SquareGrows, SMT
  <2>3. PICK m \in Nat : m = a * a /\ m <= 13249600
    BY <2>2, SMT
  <2>4. 13 * m < 1400 * d
    BY <2>3, SMT DEF WINDUP
  <2> QED
    BY <2>1, <2>3, <2>4
<1> QED
  BY <1>1, <1>2 DEF Clear

(* What is cut off does not make a speed larger. *)
LEMMA TruncatedBelow ==
  ASSUME NEW n \in Int
  PROVE  Truncated(n) \in Int /\ (Truncated(n) > 0 => 5 * Truncated(n) <= n)
<1>1. CASE n >= 0
  <2>1. PICK q \in Int : q = n \div 5 /\ 5 * q <= n
    BY <1>1, SMT
  <2> QED
    BY <1>1, <2>1 DEF Truncated
<1>2. CASE ~(n >= 0)
  <2>1. PICK m \in Nat : m = -n
    <3>1. -n \in Nat
      BY <1>2, SMT
    <3> QED
      BY <3>1
  <2>2. PICK q \in Nat : q = m \div 5
    BY <2>1, SMT
  <2>3. Truncated(n) = -q
    BY <1>2, <2>1, <2>2 DEF Truncated
  <2> QED
    BY <2>2, <2>3, SMT
<1> QED
  BY <1>1, <1>2

(* The cap of the speed. *)
LEMMA CappedBelow ==
  ASSUME NEW n \in Int
  PROVE  /\ Capped(n, MOTOR_SPEED_LIMIT) \in Int
         /\ Capped(n, MOTOR_SPEED_LIMIT) <= MOTOR_SPEED_LIMIT
         /\ n > 0 => Capped(n, MOTOR_SPEED_LIMIT) <= n
         /\ n <= 0 => Capped(n, MOTOR_SPEED_LIMIT) <= 0
  BY SMT DEF Capped, MOTOR_SPEED_LIMIT

(* The speed is what the regulator computes, nothing overflowing. *)
LEMMA SpeedIs ==
  ASSUME RegulatorTypeOK, pid_regulator(NextError), ~Small(NextError)
  PROVE  /\ speed' = Truncated(Speed(NextError)) /\ sum_error' = Sum(NextError)
         /\ NextError \in Int /\ -50 <= NextError
         /\ Sum(NextError) \in Int /\ Sum(NextError) <= 5500
         /\ Speed(NextError) \in Int
<1>1. NextError \in -GOAL_DIST..(RANGE - GOAL_DIST)
  BY NextErrorBounds
<1>2. /\ Sum(NextError) \in -MAX_SUM_ERROR..MAX_SUM_ERROR /\ Sum(NextError) \in Int
      /\ Fits(Speed(NextError))
  BY <1>1, SpeedFits
<1>3. NextError \in Int /\ -50 <= NextError
  <2>1. RANGE \in Nat
    BY RegulatorAssumption, SMT
  <2> QED
    BY <1>1, <2>1, SMT DEF GOAL_DIST
<1>4. Sum(NextError) <= 5500
  <2>1. PICK n \in -MAX_SUM_ERROR..MAX_SUM_ERROR : n = Sum(NextError)
    BY <1>2
  <2>2. n <= 5500
    BY SMT DEF MAX_SUM_ERROR
  <2> QED
    BY <2>1, <2>2
<1>5. Speed(NextError) \in Int
  BY <1>2, <1>3, LastErrorTyped, SMT DEF Speed
<1>6. sum_error' = Sum(NextError) /\ speed' \in Int16(Speed(NextError))
  BY DEF pid_regulator
<1>7. speed' = Truncated(Speed(NextError))
  BY <1>2, <1>6 DEF Int16
<1> QED
  BY <1>2, <1>3, <1>4, <1>5, <1>6, <1>7

(* What the cap leaves of a sum. *)
LEMMA SumTyped ==
  ASSUME NEW n \in -MAX_SUM_ERROR..MAX_SUM_ERROR
  PROVE  n \in Int /\ n <= MAX_SUM_ERROR
  BY SMT DEF MAX_SUM_ERROR

(* Too near: the sum of errors carries the robot on at most as far as      *)
(* Clear has it.                                                           *)
LEMMA NearStep ==
  ASSUME RegulatorTypeOK, pid_regulator(NextError), NextError <= -20, ~Small(NextError),
         Clear(distance, sum_error)
  PROVE  Clear(distance - 13 * Capped(speed', MOTOR_SPEED_LIMIT), sum_error')
<1>1. /\ distance \in Int /\ sum_error \in Int /\ -5500 <= sum_error /\ sum_error <= 5500
  BY SMT DEF RegulatorTypeOK, MAX_SUM_ERROR
<1>2. PICK e \in Int : e = NextError /\ -50 <= e /\ e <= -20
  BY SpeedIs
<1>3. PICK s \in Int : s = Sum(e) /\ s = sum_error'
  BY <1>2, SpeedIs
<1>4. PICK p \in Int : p = previous_error /\ -50 <= p
  BY LastErrorTyped
<1>5. PICK x \in Int : /\ x = Speed(e) /\ x = 100 * e + s + 7 * (e - p)
                       /\ speed' = Truncated(x)
  <2>1. Speed(e) = 100 * e + s + 7 * (e - p)
    BY <1>3, <1>4 DEF Speed
  <2>2. Speed(e) \in Int /\ speed' = Truncated(Speed(e))
    BY <1>2, SpeedIs
  <2> QED
    BY <2>1, <2>2
<1>6. PICK v \in Int : v = speed' /\ (v > 0 => 5 * v <= x)
  BY <1>5, TruncatedBelow
<1>7. PICK c \in Int : /\ c = Capped(speed', MOTOR_SPEED_LIMIT)
                       /\ v > 0 => c <= v
                       /\ v <= 0 => c <= 0
  BY <1>6, CappedBelow
<1>8. s <= sum_error /\ (s = sum_error + 7 * e \/ s = -5500)
  BY <1>1, <1>2, <1>3, SMT DEF Sum, Capped, MAX_SUM_ERROR
<1>9. CASE v <= 0
  <2>1. distance <= distance - 13 * c /\ distance - 13 * c \in Int
    BY <1>1, <1>7, <1>9, SMT
  <2>2. Clear(distance - 13 * c, s)
    BY <1>1, <1>8, <2>1, ClearBetter
  <2> QED
    BY <1>3, <1>7, <2>2
<1>10. CASE v > 0
  <2>4. sum_error >= 1930 /\ 5 * c <= sum_error - 1930 /\ s <= sum_error - 140
    <3>1. 5 * v <= x /\ c <= v
      BY <1>6, <1>7, <1>10
    <3>2. x = 100 * e + s + 7 * (e - p)
      BY <1>5
    <3>3. /\ -50 <= e /\ e <= -20 /\ -50 <= p /\ v > 0
          /\ s = sum_error + 7 * e \/ s = -5500
      BY <1>2, <1>4, <1>8, <1>10
    <3>4. x > 0 /\ 5 * c <= x
      BY <3>1, <3>3, SMT
    <3>5. s = sum_error + 7 * e
      BY <3>2, <3>3, <3>4, SMT
    <3>6. x <= sum_error - 1930 /\ s <= sum_error - 140
      BY <1>1, <3>2, <3>3, <3>5, SMT
    <3> QED
      BY <1>1, <3>4, <3>6, SMT
  <2>5. Clear(distance - 13 * c, s)
    <3>1. PICK f \in Int : f = distance - 13 * c
      BY <1>1, SMT
    <3>2. 5 * (distance - f) <= 13 * (sum_error - 1930)
      BY <1>1, <2>4, <3>1, SMT
    <3>3. Clear(f, s)
      BY <1>1, <2>4, <3>2, ClearMove
    <3> QED
      BY <3>1, <3>3
  <2> QED
    BY <1>3, <1>7, <2>5
<1> QED
  BY <1>6, <1>9, <1>10, SMT

(* A reading of less than 70 mm. *)
LEMMA NearReading ==
  ASSUME NEW n \in Reading, ~(n >= 70)
  PROVE  n \in 0..69
<1>1. RANGE \in Int
  BY RegulatorAssumption, SMT
<1> QED
  BY <1>1, SMT DEF Reading

(* Ten readings of less than 70 mm have a mean of less than 70 mm. *)
LEMMA NearReadings ==
  ASSUME NEW w \in [0..(NB_SAMPLES - 1) -> Reading], \A i \in 0..9 : ~(w[i] >= 70)
  PROVE  Mean(w) - GOAL_DIST < 20
<1>1. ASSUME NEW i \in 0..9
      PROVE  w[i] \in 0..69
  <2>1. w[i] \in Reading /\ ~(w[i] >= 70)
    BY SMT DEF NB_SAMPLES
  <2> QED
    BY <2>1, NearReading
<1>2. PICK t \in Nat : t = Total(w) /\ t <= 690
  <2>1. PICK a \in 0..69, b \in 0..69, c \in 0..69, d \in 0..69, e \in 0..69 :
          a = w[0] /\ b = w[1] /\ c = w[2] /\ d = w[3] /\ e = w[4]
    <3>1. /\ w[0] \in 0..69 /\ w[1] \in 0..69 /\ w[2] \in 0..69 /\ w[3] \in 0..69
          /\ w[4] \in 0..69
      BY <1>1, SMT
    <3> QED
      BY <3>1, Zenon
  <2>2. PICK f \in 0..69, g \in 0..69, h \in 0..69, i \in 0..69, j \in 0..69 :
          f = w[5] /\ g = w[6] /\ h = w[7] /\ i = w[8] /\ j = w[9]
    <3>1. /\ w[5] \in 0..69 /\ w[6] \in 0..69 /\ w[7] \in 0..69 /\ w[8] \in 0..69
          /\ w[9] \in 0..69
      BY <1>1, SMT
    <3> QED
      BY <3>1, Zenon
  <2>3. Total(w) = (a + b + c + d + e) + (f + g + h + i + j)
    BY <2>1, <2>2 DEF Total
  <2>4. /\ (a + b + c + d + e) + (f + g + h + i + j) \in Nat
        /\ (a + b + c + d + e) + (f + g + h + i + j) <= 690
    BY SMT
  <2> QED
    BY <2>3, <2>4
<1>3. t % 65536 = t
  BY <1>2, SMT
<1>4. Mean(w) = t \div 10
  BY <1>2, <1>3 DEF Mean, UINT16, NB_SAMPLES
<1>5. t \div 10 \in Int /\ t \div 10 <= 69
  BY <1>2, SMT
<1> QED
  BY <1>4, <1>5, SMT DEF GOAL_DIST

(* Near is a number. *)
LEMMA NearIs == Near \in Int /\ Near >= WINDUP
<1>1. TOF_PERIOD \in Nat
  BY RegulatorAssumption, SMT
<1> QED
  BY <1>1, SMT DEF Near, Stride, MOTOR_SPEED_LIMIT, NB_SAMPLES, WINDUP

(* What was true some moves ago was true TOF_PERIOD - 1 moves ago.         *)
LEMMA OlderTold ==
  ASSUME distance \in Nat, tof \in 1..TOF_PERIOD,
         distance >= Near - Stride * (TOF_PERIOD - tof)
  PROVE  distance >= Near - Stride * (TOF_PERIOD - 1)
<1>1. PICK n \in Int : n = Near
  BY NearIs
<1>2. TOF_PERIOD \in Nat
  BY RegulatorAssumption, SMT
<1>3. distance >= n - 14300 * (TOF_PERIOD - tof)
  BY <1>1, SMT DEF Stride, MOTOR_SPEED_LIMIT
<1>4. distance >= n - 14300 * (TOF_PERIOD - 1)
  BY <1>2, <1>3, SMT
<1> QED
  BY <1>1, <1>4, SMT DEF Stride, MOTOR_SPEED_LIMIT

(* One more move. *)
LEMMA NextTold ==
  ASSUME NEW d \in Int, NEW f \in Int, f >= d - 14300, NEW moves \in Int,
         d >= Near - Stride * moves
  PROVE  f >= Near - Stride * (moves + 1)
<1>1. PICK n \in Int : n = Near
  BY NearIs
<1>2. d >= n - 14300 * moves
  BY <1>1, SMT DEF Stride, MOTOR_SPEED_LIMIT
<1>3. f >= n - 14300 * (moves + 1)
  BY <1>2, SMT
<1> QED
  BY <1>1, <1>3, SMT DEF Stride, MOTOR_SPEED_LIMIT

(* An iteration takes a reading into the window, which is as old as the    *)
(* sensor's period at most.                                                *)
LEMMA ToldIterate ==
  ASSUME RegulatorTypeOK, ToldInv, Iterate
  PROVE  ToldInv'
<1>1. /\ phase = "compute" /\ phase' # "compute" /\ get_mean_distance_mm
      /\ distance' = distance /\ dist_mm' = dist_mm /\ tof' = tof
  <2>1. phase' # "compute"
    BY DEF Iterate
  <2> QED
    BY <2>1 DEF Iterate, world
<1>2. ASSUME NEW i \in 0..9
      PROVE  Told(previous_distance[i], TOF_PERIOD - 1 + Age(i))'
  <2>1. Age(i) = Place(i) + 1 /\ Age(i)' = Place(i)' /\ Place(i) \in 0..9
    BY <1>1, PlaceTyped DEF Age
  <2>2. CASE i = circular_buffer
    <3>1. previous_distance'[i] = dist_mm /\ Age(i)' = 0
      BY <1>1, <2>1, <2>2, WindowMoves
    <3>2. Told(dist_mm, TOF_PERIOD - tof)
      BY DEF ToldInv
    <3>3. dist_mm >= 70 => distance >= Near - Stride * (TOF_PERIOD - 1)
      BY <3>2, OlderTold DEF Told, RegulatorTypeOK
    <3>4. TOF_PERIOD - 1 + 0 = TOF_PERIOD - 1
      BY RegulatorAssumption, SMT
    <3> QED
      BY <1>1, <3>1, <3>3, <3>4 DEF Told
  <2>3. CASE i # circular_buffer
    <3>1. previous_distance'[i] = previous_distance[i] /\ Age(i)' = Age(i)
      BY <1>1, <2>1, <2>3, WindowMoves
    <3> QED
      BY <1>1, <3>1 DEF ToldInv, Told
  <2> QED
    BY <2>2, <2>3
<1> QED
  BY <1>1, <1>2 DEF ToldInv, Told

(* A move makes every reading older by one, and takes a stride at most.    *)
LEMMA ToldMove ==
  ASSUME RegulatorTypeOK, ToldInv, Move, TOF_PERIOD <= 31, Next_distance > 0
  PROVE  ToldInv' /\ distance' = Next_distance
<1>1. /\ phase = "move" /\ phase' = "compute" /\ previous_distance' = previous_distance
      /\ circular_buffer' = circular_buffer
  BY DEF Move
<1>2. PICK c \in Int : c = Capped(speed, MOTOR_SPEED_LIMIT) /\ c <= 1100
  BY CappedBelow DEF RegulatorTypeOK, InInt16, MOTOR_SPEED_LIMIT
<1>3. distance' = Next_distance /\ distance' = distance - 13 * c
  BY <1>1, <1>2, SMT DEF Move, Next_distance, RegulatorTypeOK
<1>4. distance \in Int /\ TOF_PERIOD \in Nat /\ tof \in Nat /\ 1 <= tof /\ tof <= TOF_PERIOD
  BY RegulatorAssumption, SMT DEF RegulatorTypeOK
<1>5. distance' \in Int /\ distance' >= distance - 14300
  BY <1>2, <1>3, <1>4, SMT
<1>6. ASSUME NEW i \in 0..9
      PROVE  Told(previous_distance[i], TOF_PERIOD - 1 + Age(i))'
  <2>1. Age(i)' = Age(i) + 1 /\ Age(i) \in Int
    BY <1>1, PlaceTyped DEF Age, Place
  <2>2. Told(previous_distance[i], TOF_PERIOD - 1 + Age(i))
    BY DEF ToldInv
  <2>3. TOF_PERIOD - 1 + Age(i) \in Int /\ TOF_PERIOD - 1 + Age(i)' = (TOF_PERIOD - 1 + Age(i)) + 1
    BY <1>4, <2>1, SMT
  <2>4. previous_distance[i] >= 70 =>
          distance' >= Near - Stride * ((TOF_PERIOD - 1 + Age(i)) + 1)
    BY <1>4, <1>5, <2>2, <2>3, NextTold DEF Told
  <2> QED
    BY <1>1, <2>3, <2>4 DEF Told
<1>7. Told(dist_mm, TOF_PERIOD - tof)'
  <2>1. CASE tof = 1
    <3>1. tof' = TOF_PERIOD /\ dist_mm' = distance' \div Mm(1)
      BY <2>1 DEF Move
    <3>2. dist_mm' >= 70 => distance' >= 700000
      <4>1. \A n \in Int : n \div 10000 >= 70 => n >= 700000
        BY SMT
      <4>2. Mm(1) = 10000
        BY SMT DEF Mm
      <4> QED
        BY <1>5, <3>1, <4>1, <4>2
    <3>3. Near <= 700000 /\ TOF_PERIOD - tof' = 0 /\ Near - Stride * 0 = Near /\ Near \in Int
      BY <1>4, <3>1, SMT DEF Near, Stride, MOTOR_SPEED_LIMIT, NB_SAMPLES, WINDUP
    <3>4. dist_mm' >= 70 => distance' >= Near
      BY <1>5, <3>2, <3>3, SMT
    <3> QED
      BY <3>3, <3>4 DEF Told
  <2>2. CASE tof # 1
    <3>1. tof' = tof - 1 /\ dist_mm' = dist_mm
      BY <2>2 DEF Move
    <3>2. Told(dist_mm, TOF_PERIOD - tof)
      BY DEF ToldInv
    <3>3. TOF_PERIOD - tof \in Int /\ TOF_PERIOD - tof' = (TOF_PERIOD - tof) + 1
      BY <1>4, <3>1, SMT
    <3>4. dist_mm >= 70 => distance' >= Near - Stride * ((TOF_PERIOD - tof) + 1)
      BY <1>4, <1>5, <3>2, <3>3, NextTold DEF Told
    <3> QED
      BY <3>1, <3>3, <3>4 DEF Told
  <2> QED
    BY <2>1, <2>2
<1> QED
  BY <1>3, <1>6, <1>7 DEF ToldInv, Told

(* Where the enemy turns up far enough away, nothing that was read before  *)
(* matters.                                                                *)
LEMMA ToldAnew ==
  ASSUME NEW d \in Int, Near <= d, NEW moves \in Nat
  PROVE  d >= Near - Stride * moves
<1>1. PICK n \in Int : n = Near
  BY NearIs
<1>2. d >= n - 14300 * moves
  BY <1>1, SMT
<1> QED
  BY <1>1, <1>2 DEF Stride, MOTOR_SPEED_LIMIT

(* The places after a step. *)
LEMMA NextPlace ==
  ASSUME RegulatorTypeOK', NEW i \in 0..9
  PROVE  Place(i)' \in 0..9
<1>1. circular_buffer' \in 0..(NB_SAMPLES - 1)
  BY DEF RegulatorTypeOK
<1>2. 0..(NB_SAMPLES - 1) = 0..9
  BY SMT DEF NB_SAMPLES
<1> QED
  BY <1>1, <1>2, RingPlace DEF Place

(* What is read is true, step by step. *)
LEMMA ToldStep ==
  ASSUME TurnsUpFarEnough, RegulatorTypeOK, RegulatorTypeOK', RunInv,
         [RegulatorNext]_regulatorVars
  PROVE  ToldInv'
<1>0. TOF_PERIOD \in Nat /\ 1 <= TOF_PERIOD /\ tof' \in 1..TOF_PERIOD
  <2>1. TOF_PERIOD \in Nat /\ 1 <= TOF_PERIOD
    BY RegulatorAssumption, SMT
  <2> QED
    BY <2>1 DEF RegulatorTypeOK
<1>1. CASE Iterate
  BY <1>1, ToldIterate DEF RunInv
<1>2. CASE Move
  BY <1>2, ToldMove DEF RunInv, ClearInv, Clear, TurnsUpFarEnough
<1>3. ASSUME distance' >= Near, distance' \in Int
      PROVE  ToldInv'
  <2>1. ASSUME NEW i \in 0..9
        PROVE  Told(previous_distance[i], TOF_PERIOD - 1 + Age(i))'
    <3>1. Place(i)' \in 0..9
      BY NextPlace
    <3>2. Age(i)' \in Nat
      BY <3>1, SMT DEF Age
    <3>3. TOF_PERIOD - 1 + Age(i)' \in Nat
      BY <1>0, <3>2, SMT
    <3> QED
      BY <1>3, <3>3, ToldAnew DEF Told
  <2>2. TOF_PERIOD - tof' \in Nat
    <3>1. \A n \in 1..TOF_PERIOD : TOF_PERIOD - n \in Nat
      BY <1>0, SMT
    <3> QED
      BY <1>0, <3>1
  <2> QED
    BY <1>3, <2>1, <2>2, ToldAnew DEF ToldInv, Told
<1>4. CASE EnemyMoves \/ PursueAgain
  <2>1. PICK d \in Start : distance' = Mm(d)
    BY <1>4 DEF EnemyMoves, PursueAgain
  <2>2. distance' >= Near /\ distance' \in Int
    BY <2>1, NearIs, SMT DEF TurnsUpFarEnough, RegulatorTypeOK
  <2> QED
    BY <1>3, <2>2
<1>5. CASE UNCHANGED regulatorVars
  BY <1>5 DEF regulatorVars, statics, world, RunInv, ToldInv, Told, Age, Place
<1> QED
  BY <1>1, <1>2, <1>4, <1>5 DEF RegulatorNext

(* Too far: some reading is of 70 mm or more, hence the enemy is not near, *)
(* and a stride does not come too near.                                    *)
LEMMA FarStep ==
  ASSUME RegulatorTypeOK, RegulatorTypeOK', ToldInv', Iterate, NextError >= 20,
         NEW c \in Int, c <= 1100
  PROVE  Clear(distance - 13 * c, sum_error')
<1>1. get_mean_distance_mm /\ phase' # "compute" /\ distance' = distance
  <2>1. phase' # "compute"
    BY DEF Iterate
  <2> QED
    BY <2>1 DEF Iterate, world
<1>2. previous_distance' \in [0..(NB_SAMPLES - 1) -> Reading]
  BY DEF RegulatorTypeOK
<1>3. NextError = Mean(previous_distance') - GOAL_DIST
  BY <1>1 DEF NextError, get_mean_distance_mm
<1>4. PICK i \in 0..9 : previous_distance'[i] >= 70
  <2>1. SUFFICES ASSUME \A i \in 0..9 : ~(previous_distance'[i] >= 70) PROVE FALSE
    OBVIOUS
  <2>2. NextError < 20
    BY <1>2, <1>3, <2>1, NearReadings
  <2>3. NextError \in Int
    BY NextErrorBounds, RegulatorAssumption, SMT DEF GOAL_DIST
  <2> QED
    BY <2>2, <2>3, SMT
<1>5. distance >= Near - Stride * (TOF_PERIOD - 1 + Age(i)')
  BY <1>1, <1>4 DEF ToldInv, Told
<1>6. PICK a \in Nat : a = Age(i)' /\ a <= 9
  <2>1. Age(i)' = Place(i)'
    BY <1>1 DEF Age
  <2>2. Place(i)' \in 0..9
    BY NextPlace
  <2> QED
    BY <2>1, <2>2, SMT
<1>7. distance \in Int /\ TOF_PERIOD \in Nat
  BY RegulatorAssumption, SMT DEF RegulatorTypeOK
<1>8. distance >= WINDUP + Stride
  <2>0. distance >= Near - Stride * (TOF_PERIOD - 1 + a)
    BY <1>5, <1>6
  <2>1. distance >= 14300 * (TOF_PERIOD + 9) + 123033 - 14300 * (TOF_PERIOD - 1 + a)
    BY <1>7, <2>0, SMT DEF Near, Stride, MOTOR_SPEED_LIMIT, NB_SAMPLES, WINDUP
  <2> QED
    BY <1>6, <1>7, <2>1, SMT DEF Stride, MOTOR_SPEED_LIMIT, WINDUP
<1>9. distance - 13 * c \in Int /\ distance - 13 * c >= WINDUP
  BY <1>7, <1>8, SMT DEF Stride, MOTOR_SPEED_LIMIT, WINDUP
<1>10. sum_error' \in Int /\ sum_error' <= MAX_SUM_ERROR
  <2>1. sum_error' \in -MAX_SUM_ERROR..MAX_SUM_ERROR
    BY DEF RegulatorTypeOK
  <2> QED
    BY <2>1, SumTyped
<1> QED
  BY <1>9, <1>10, ClearAtWindup

(* The road is clear, step by step. *)
LEMMA ClearStep ==
  ASSUME TurnsUpFarEnough, RegulatorTypeOK, RegulatorTypeOK', RunInv, ToldInv',
         [RegulatorNext]_regulatorVars
  PROVE  ClearInv'
<1>0. /\ distance \in Int /\ distance > 0 /\ sum_error \in Int
      /\ sum_error <= MAX_SUM_ERROR
  <2>1. sum_error \in -MAX_SUM_ERROR..MAX_SUM_ERROR /\ distance \in Nat
    BY DEF RegulatorTypeOK
  <2> QED
    BY <2>1, SumTyped DEF RunInv, ClearInv
<1>1. CASE Iterate
  <2>1. phase = "compute" /\ distance' = distance /\ pid_regulator(NextError)
    BY <1>1 DEF Iterate, world
  <2>2. Clear(distance, sum_error)
    BY <2>1 DEF RunInv, ClearInv, Next_distance
  <2>3. PICK c \in Int : c = Capped(speed', MOTOR_SPEED_LIMIT) /\ c <= 1100
    <3>1. speed' \in Int
      BY DEF RegulatorTypeOK, InInt16
    <3>2. /\ Capped(speed', MOTOR_SPEED_LIMIT) \in Int
          /\ Capped(speed', MOTOR_SPEED_LIMIT) <= MOTOR_SPEED_LIMIT
      BY <3>1, CappedBelow
    <3>3. MOTOR_SPEED_LIMIT = 1100
      BY DEF MOTOR_SPEED_LIMIT
    <3> QED
      BY <3>2, <3>3
  <2>4. Clear(distance - 13 * c, sum_error')
    <3>1. CASE Small(NextError)
      <4>1. speed' = 0 /\ sum_error' = sum_error
        BY <2>1, <3>1 DEF pid_regulator
      <4>2. c = 0
        BY <2>3, <4>1, SMT DEF Capped, MOTOR_SPEED_LIMIT
      <4>3. distance - 13 * c = distance
        BY <1>0, <4>2, SMT
      <4> QED
        BY <2>2, <4>1, <4>3
    <3>2. CASE ~Small(NextError) /\ NextError <= -20
      BY <2>1, <2>2, <2>3, <3>2, NearStep
    <3>3. CASE NextError >= 20
      BY <1>1, <2>3, <3>3, FarStep
    <3>4. NextError \in Int
      BY NextErrorBounds, RegulatorAssumption, SMT DEF GOAL_DIST
    <3>5. Small(NextError) \/ NextError <= -20 \/ NextError >= 20
      BY <3>4, SMT DEF Small, ERROR_THRESHOLD
    <3> QED
      BY <3>1, <3>2, <3>3, <3>5
  <2>5. phase' = "move" \/ (phase' = "over" /\ speed' = 0)
    BY <1>1 DEF Iterate
  <2>6. CASE phase' = "move"
    <3>1. Next_distance' = distance - 13 * c
      BY <2>1, <2>3, <2>6 DEF Next_distance
    <3> QED
      BY <1>0, <2>1, <2>4, <3>1 DEF ClearInv, Clear
  <2>7. CASE phase' = "over" /\ speed' = 0
    <3>1. c = 0
      BY <2>3, <2>7, SMT DEF Capped, MOTOR_SPEED_LIMIT
    <3>2. distance - 13 * c = distance
      BY <1>0, <3>1, SMT
    <3>3. Next_distance' = distance - 13 * c
      BY <2>1, <2>7, <3>2 DEF Next_distance
    <3> QED
      BY <1>0, <2>1, <2>4, <3>3 DEF ClearInv, Clear
  <2> QED
    BY <2>5, <2>6, <2>7
<1>2. CASE Move
  <2>1. Clear(Next_distance, sum_error) /\ Next_distance > 0
    BY DEF RunInv, ClearInv, Clear
  <2>2. distance' = Next_distance /\ phase' = "compute" /\ sum_error' = sum_error
    BY <1>2, <2>1, ToldMove DEF RunInv, TurnsUpFarEnough, Move
  <2>3. Next_distance' = distance'
    BY <2>2 DEF Next_distance
  <2> QED
    BY <2>1, <2>2, <2>3 DEF ClearInv, Clear
<1>3. CASE EnemyMoves
  <2>1. PICK d \in Start : distance' = Mm(d)
    BY <1>3 DEF EnemyMoves
  <2>2. /\ phase = "move" /\ phase' = "move" /\ speed' = speed /\ sum_error' = sum_error
    BY <1>3 DEF EnemyMoves, statics
  <2>3. PICK c \in Int : c = Capped(speed, MOTOR_SPEED_LIMIT) /\ c <= 1100
    <3>1. speed \in Int
      BY DEF RegulatorTypeOK, InInt16
    <3>2. /\ Capped(speed, MOTOR_SPEED_LIMIT) \in Int
          /\ Capped(speed, MOTOR_SPEED_LIMIT) <= MOTOR_SPEED_LIMIT
      BY <3>1, CappedBelow
    <3>3. MOTOR_SPEED_LIMIT = 1100
      BY DEF MOTOR_SPEED_LIMIT
    <3> QED
      BY <3>2, <3>3
  <2>4. PICK f \in Int : f = distance' /\ f >= 14300 * 10 + WINDUP
    <3>1. distance' \in Int /\ distance' >= Near
      BY <2>1 DEF TurnsUpFarEnough, RegulatorTypeOK
    <3>2. Near >= 14300 * 10 + WINDUP /\ Near \in Int
      <4>1. TOF_PERIOD \in Nat /\ 1 <= TOF_PERIOD
        BY RegulatorAssumption, SMT
      <4> QED
        BY <4>1, SMT DEF Near, Stride, MOTOR_SPEED_LIMIT, NB_SAMPLES, WINDUP
    <3> QED
      BY <3>1, <3>2, SMT DEF WINDUP
  <2>5. f - 13 * c \in Int /\ f - 13 * c >= WINDUP /\ f > 0
    BY <2>3, <2>4, SMT DEF WINDUP
  <2>6. Clear(f - 13 * c, sum_error)
    BY <1>0, <2>5, ClearAtWindup
  <2>7. Next_distance' = f - 13 * c
    BY <2>2, <2>3, <2>4 DEF Next_distance
  <2> QED
    BY <2>2, <2>4, <2>5, <2>6, <2>7 DEF ClearInv
<1>4. CASE PursueAgain
  <2>1. PICK d \in Start : distance' = Mm(d)
    BY <1>4 DEF PursueAgain
  <2>2. phase' = "compute" /\ sum_error' = sum_error
    BY <1>4 DEF PursueAgain
  <2>3. distance' \in Int /\ distance' >= WINDUP
    <3>1. distance' \in Int /\ distance' >= Near
      BY <2>1 DEF TurnsUpFarEnough, RegulatorTypeOK
    <3> QED
      BY <3>1, NearIs, SMT DEF WINDUP
  <2>4. Clear(distance', sum_error)
    BY <1>0, <2>3, ClearAtWindup
  <2>5. Next_distance' = distance'
    BY <2>2 DEF Next_distance
  <2> QED
    BY <2>2, <2>4, <2>5 DEF ClearInv, Clear
<1>5. CASE UNCHANGED regulatorVars
  BY <1>5 DEF regulatorVars, statics, world, RunInv, ClearInv, Clear, Next_distance
<1> QED
  BY <1>1, <1>2, <1>3, <1>4, <1>5 DEF RegulatorNext

(* NeverRuns: the robot does not run into an enemy that turns up 40 mm     *)
(* away or farther, in whatever pursuit and with whatever the last one has *)
(* left in the window and in the sum; for other periods of the sensor, up  *)
(* to 31 iterations, at Near.                                              *)
THEOREM RunsIntoNobody ==
  ASSUME TurnsUpFarEnough
  PROVE  RegulatorSpec => []NeverRuns
<1>1. RegulatorInit => RunInv
  <2> SUFFICES ASSUME RegulatorInit PROVE RunInv
    OBVIOUS
  <2>1. PICK d \in Start : distance = Mm(d)
    BY DEF RegulatorInit
  <2>2. /\ phase = "compute" /\ sum_error = 0 /\ tof \in 1..TOF_PERIOD
        /\ circular_buffer = 0
    BY DEF RegulatorInit
  <2>3. distance \in Nat /\ TOF_PERIOD \in Nat /\ 1 <= TOF_PERIOD
    BY StartTyped, RegulatorAssumption, SMT DEF RegulatorTypeOK
  <2>4. distance >= Near /\ distance >= WINDUP
    BY <2>1, <2>3, NearIs, SMT DEF TurnsUpFarEnough, WINDUP
  <2>5. Clear(distance, sum_error)
    BY <2>2, <2>3, <2>4, ClearAtWindup, SMT DEF MAX_SUM_ERROR
  <2>6. ClearInv
    BY <2>2, <2>5 DEF ClearInv, Clear, Next_distance
  <2>7. ASSUME NEW i \in 0..9
        PROVE  Told(previous_distance[i], TOF_PERIOD - 1 + Age(i))
    <3>1. Place(i) \in 0..9 /\ Age(i) = Place(i) + 1
      BY <2>2, RingPlace DEF Place, Age
    <3>2. TOF_PERIOD - 1 + Age(i) \in Nat
      BY <2>3, <3>1, SMT
    <3> QED
      BY <2>3, <2>4, <3>2, ToldAnew DEF Told
  <2>8. TOF_PERIOD - tof \in Nat
    BY <2>2, <2>3, SMT
  <2>9. Told(dist_mm, TOF_PERIOD - tof)
    BY <2>3, <2>4, <2>8, ToldAnew DEF Told
  <2> QED
    BY <2>6, <2>7, <2>9 DEF RunInv, ToldInv
<1>2. RegulatorTypeOK /\ RegulatorTypeOK' /\ RunInv /\ [RegulatorNext]_regulatorVars
        => RunInv'
  <2> SUFFICES ASSUME RegulatorTypeOK, RegulatorTypeOK', RunInv,
                      [RegulatorNext]_regulatorVars
               PROVE  RunInv'
    OBVIOUS
  <2>1. ToldInv'
    BY ToldStep
  <2>2. ClearInv'
    BY <2>1, ClearStep
  <2> QED
    BY <2>1, <2>2 DEF RunInv
<1>3. RunInv => NeverRuns
  BY DEF RunInv, ClearInv, NeverRuns
<1> QED
  BY <1>1, <1>2, <1>3, RegulatorTyped, PTL DEF RegulatorSpec
=============================================================================
