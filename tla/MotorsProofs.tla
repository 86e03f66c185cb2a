---------------------------- MODULE MotorsProofs ----------------------------
(***************************************************************************)
(* motors.c, proved from above and from below: the wheels obey the last    *)
(* command, or mix two in one way only, for all speeds and limits that the *)
(* timer can tell apart (module Motors); the count and the coils of a      *)
(* motor never part and the rotor can follow, for every positions that are *)
(* set (module Coils).                                                     *)
(***************************************************************************)
EXTENDS Motors, Coils, SequenceTheorems, TLAPS

-----------------------------------------------------------------------------
(* Module Motors.                                                          *)

Calls == [wheel : WheelName, speed : Int]
AvoidBursts == TurnBursts \cup {AheadBurst, StopBurst}

(* A burst of two calls is one for each wheel; the ones of avoid_obstacles *)
(* ask for both, and never for a speed that saves power.                   *)
LowBurst(b) == b \in Seq(Calls) /\ Len(b) = 2 /\ b[1].wheel # b[2].wheel
AvoidBurst(b) ==
  /\ b \in Seq(Calls) /\ Len(b) \in {2, 4}
  /\ \A w \in WheelName : \E i \in 1 .. Len(b) : b[i].wheel = w
  /\ \A i \in 1 .. Len(b) : ~SavesPower(b[i].speed)

(* What is left of a burst is its end.                                     *)
Ends(rest, burst) ==
  /\ rest \in Seq(Calls) /\ Len(rest) <= Len(burst)
  /\ \A i \in 1 .. Len(rest) : rest[i] = burst[i + Len(burst) - Len(rest)]

BurstsInv ==
  /\ asked \in [Caller -> Seq(Calls)]
  /\ asked["low"] # <<>> => LowBurst(asked["low"])
  /\ asked["avoid"] # <<>> => AvoidBurst(asked["avoid"])
  /\ todo \in [Caller -> Seq(Calls)]
  /\ \A t \in Caller : Ends(todo[t], asked[t])
  /\ \A t \in Caller : Idle(t) => at[t] = "direction"

(* Who is in the middle of its burst: the one that began last, and the one *)
(* that it has cut.                                                        *)
WhoInv ==
  /\ \A t \in Caller : ~Idle(t) => t = latest \/ (cut /\ t = "low")
  /\ cut => latest = "avoid" /\ asked["low"] # <<>>
  /\ latest # "nobody" => asked[latest] # <<>>

(* The wheels for which nothing is left in a list of calls.                *)
Through(calls, w) == \A i \in 1 .. Len(calls) : calls[i].wheel # w

SetTo(state, speed) ==
  /\ state.direction = Direction(speed)
  /\ state.enabled = SavesPower(speed)
  /\ state.period = Interval(speed)

(* The thread that has the wheels to itself: those that it is through with *)
(* are as it last asked, those it is at are so as far as it has come.      *)
Progress(t) ==
  /\ \A w \in WheelName : Through(todo[t], w) =>
       Final(asked[t], w) \in Int /\ SetTo(wheel[w], Final(asked[t], w))
  /\ ~Idle(t) /\ at[t] # "direction" =>
       /\ wheel[Call(t).wheel].direction = Direction(Call(t).speed)
       /\ at[t] # "channel" => wheel[Call(t).wheel].enabled = SavesPower(Call(t).speed)

ProgressInv == latest # "nobody" /\ (~cut \/ ~Idle(latest)) => Progress(latest)

(* Once avoid_obstacles is through with the burst that cut another, that   *)
(* one still sets the directions of the calls it is before.                *)
GoesAs(w, t) == wheel[w].direction = Direction(Final(asked[t], w))
First == asked["low"][1].wheel
Second == asked["low"][2].wheel
Before(n) == Len(todo["low"]) = n /\ at["low"] = "direction"

MixInv ==
  cut /\ Idle("avoid") =>
    /\ Before(2) => GoesAs(First, "avoid") /\ GoesAs(Second, "avoid")
    /\ Len(todo["low"]) = 2 \/ Before(1) =>
         GoesAs(Second, "avoid") /\ (GoesAs(First, "avoid") \/ GoesAs(First, "low"))
    /\ ~(Len(todo["low"]) = 2 \/ Before(1)) =>
         \/ GoesAs(First, "low") /\ GoesAs(Second, "low")
         \/ GoesAs(First, "avoid") /\ GoesAs(Second, "avoid")
         \/ GoesAs(First, "avoid") /\ GoesAs(Second, "low")

(* A call that asks for a notification, or that is to change the period of *)
(* an enabled channel, saves power.                                        *)
PulseInv ==
  \A t \in Caller :
    /\ at[t] = "notification" => ~Idle(t) /\ SavesPower(Call(t).speed)
    /\ ~Idle(t) /\ at[t] = "period" /\ wheel[Call(t).wheel].enabled
         => SavesPower(Call(t).speed)

MotorsInv == MotorsTypeOK /\ BurstsInv /\ WhoInv /\ ProgressInv /\ MixInv /\ PulseInv

(* A number divided, times the divisor, is the number but for a remainder. *)
LEMMA Quotient ==
  ASSUME NEW a \in Nat, NEW b \in Nat \ {0}
  PROVE  /\ a \div b \in Nat
         /\ (a \div b) * b <= a
         /\ (a \div b + 1) * b > a
BY SMT

(* The greater the divisor, the smaller the quotient. *)
LEMMA QuotientOrder ==
  ASSUME NEW a \in Nat, NEW b \in Nat \ {0}, NEW c \in Nat \ {0}, c <= b
  PROVE  a \div b <= a \div c
<1> DEFINE p == a \div b
           q == a \div c
<1>1. p \in Nat /\ q \in Nat /\ p * b <= a /\ (q + 1) * c > a
  BY Quotient
<1> HIDE DEF p, q
<1>2. ASSUME q + 1 <= p PROVE FALSE
  <2>1. (q + 1) * c <= p * c
    BY <1>1, <1>2, SMT
  <2>2. p * c <= p * b
    BY <1>1, SMT
  <2>3. (q + 1) * c \in Int /\ p * c \in Int /\ p * b \in Int
    BY <1>1
  <2> QED
    BY <1>1, <2>1, <2>2, <2>3
<1>3. p <= q
  BY <1>1, <1>2
<1> QED
  BY <1>3 DEF p, q

(* The speed is limited, and a wheel that is to turn turns. *)
LEMMA LimitedTyped ==
  ASSUME NEW s \in Int
  PROVE  /\ Limited(s) \in Int
         /\ Size(Limited(s)) \in 0 .. MOTOR_SPEED_LIMIT
         /\ s # 0 => Size(Limited(s)) > 0
         /\ Size(Limited(s)) = IF Size(s) > MOTOR_SPEED_LIMIT THEN MOTOR_SPEED_LIMIT ELSE Size(s)
         /\ Size(Microsteps(s)) = 2 * Size(Limited(s))
BY SpeedAssumption DEF Limited, Size, Microsteps

(* The interval of a speed that is not 0 has not been through uint16_t.    *)
LEMMA IntervalOf ==
  ASSUME NEW s \in Int, s # 0
  PROVE  /\ Interval(s) = MOTOR_TIMER_FREQ \div (2 * Size(Limited(s)))
         /\ Interval(s) \in Period
<1> DEFINE v == Size(Limited(s))
           q == MOTOR_TIMER_FREQ \div (2 * v)
<1>1. v \in 1 .. MOTOR_SPEED_LIMIT /\ Size(Microsteps(s)) = 2 * v
  BY LimitedTyped, SpeedAssumption
<1>2. 2 * v \in Nat \ {0} /\ MOTOR_TIMER_FREQ \in Nat
  BY <1>1, SpeedAssumption
<1>3. q \in Nat /\ q * (2 * v) <= MOTOR_TIMER_FREQ /\ (q + 1) * (2 * v) > MOTOR_TIMER_FREQ
  BY <1>2, Quotient
<1>4. Interval(s) = q % 65536
  BY <1>1 DEF Interval
<1> HIDE DEF v, q
<1>5. q * 2 <= q * (2 * v)
  BY <1>1, <1>3, SMT
<1>6. q <= 65535
  BY <1>3, <1>5, <1>2, IntervalAssumption, SMT
<1>7. q # 0
  <2>1. 2 * v <= MOTOR_TIMER_FREQ
    BY <1>1, <1>2, IntervalAssumption, SpeedAssumption
  <2> QED
    BY <1>2, <1>3, <2>1, SMT
<1>8. q % 65536 = q
  BY <1>3, <1>6, SMT
<1>9. Interval(s) = q /\ Interval(s) \in Period
  <2>1. q \in Nat
    BY <1>3, Zenon
  <2> QED
    BY <1>4, <1>6, <1>7, <1>8, <2>1 DEF Period
<1>10. q = MOTOR_TIMER_FREQ \div (2 * Size(Limited(s)))
  BY Zenon DEF q, v
<1> QED
  BY <1>9, <1>10, Zenon

(* The types of what a call sets. *)
LEMMA SetTyped ==
  ASSUME NEW s \in Int
  PROVE  /\ Direction(s) \in {"HALT", "FORWARD", "BACKWARD"}
         /\ SavesPower(s) \in BOOLEAN
         /\ Interval(s) \in Period
<1>1. Direction(s) \in {"HALT", "FORWARD", "BACKWARD"}
  BY DEF Direction
<1>2. SavesPower(s) \in BOOLEAN
  BY Zenon DEF SavesPower
<1>3. Interval(s) \in Period
  <2>1. CASE s = 0
    BY <2>1 DEF Interval, Period
  <2>2. CASE s # 0
    BY <2>2, IntervalOf, Zenon
  <2> QED
    BY <2>1, <2>2
<1> QED
  BY <1>1, <1>2, <1>3, Zenon

(* What a call of motor_set_speed sets is what the wheel was told to do.   *)
LEMMA Obeying ==
  ASSUME NEW w \in WheelName, NEW s \in Int, SetTo(wheel[w], s)
  PROVE  Obeys(w, s)
<1> DEFINE v == IF Size(s) > MOTOR_SPEED_LIMIT THEN MOTOR_SPEED_LIMIT ELSE Size(s)
<1>1. v = Size(Limited(s)) /\ v \in Nat /\ Size(Microsteps(s)) = 2 * v
  BY LimitedTyped, SpeedAssumption
<1>0. v > 0 <=> s # 0
  BY LimitedTyped, SpeedAssumption DEF Size
<1>2. (wheel[w].direction = "FORWARD" <=> s > 0) /\ (wheel[w].direction = "BACKWARD" <=> s < 0)
  BY DEF SetTo, Direction
<1>3. wheel[w].enabled <=> (v > 0 /\ 2 * v < THRESV)
  <2>1. SavesPower(s) <=> (v > 0 /\ 2 * v < THRESV)
    BY <1>1, <1>0 DEF SavesPower
  <2> QED
    BY <2>1, Zenon DEF SetTo
<1>4. ASSUME v > 0
      PROVE  /\ wheel[w].period * 2 * v <= MOTOR_TIMER_FREQ
             /\ (wheel[w].period + 1) * 2 * v > MOTOR_TIMER_FREQ
  <2> DEFINE q == MOTOR_TIMER_FREQ \div (2 * v)
  <2>1. wheel[w].period = q
    BY <1>1, <1>0, <1>4, IntervalOf DEF SetTo
  <2>2. 2 * v \in Nat \ {0} /\ MOTOR_TIMER_FREQ \in Nat
    BY <1>1, <1>4, SpeedAssumption
  <2>3. q \in Nat /\ q * (2 * v) <= MOTOR_TIMER_FREQ /\ (q + 1) * (2 * v) > MOTOR_TIMER_FREQ
    BY <2>2, Quotient
  <2> HIDE DEF q, v
  <2>4. q * 2 * v = q * (2 * v) /\ (q + 1) * 2 * v = (q + 1) * (2 * v)
    BY <1>1, <2>3, SMT
  <2> QED
    BY <2>1, <2>3, <2>4
<1> HIDE DEF v
<1>5. LET s0 == wheel[w] IN
        /\ (s0.direction = "FORWARD") <=> s > 0
        /\ (s0.direction = "BACKWARD") <=> s < 0
        /\ v > 0 => /\ s0.period * 2 * v <= MOTOR_TIMER_FREQ
                    /\ (s0.period + 1) * 2 * v > MOTOR_TIMER_FREQ
        /\ s0.enabled <=> (v > 0 /\ 2 * v < THRESV)
  BY <1>2, <1>3, <1>4, Zenon
<1> QED
  BY <1>5, Zenon DEF Obeys, v

(* The pulse is over before the wheel makes its next step. *)
LEMMA PulseIsShort ==
  ASSUME NEW s \in Int, SavesPower(s)
  PROVE  PULSE < Interval(s)
<1> DEFINE v == Size(Limited(s))
<1>1. s # 0 /\ v \in Nat \ {0} /\ 2 * v < THRESV
  BY LimitedTyped, SpeedAssumption DEF SavesPower
<1>2. Interval(s) = MOTOR_TIMER_FREQ \div (2 * v)
  BY <1>1, IntervalOf
<1> HIDE DEF v
<1>3. 2 * v <= THRESV - 1 /\ 2 * v \in Nat \ {0} /\ THRESV - 1 \in Nat \ {0}
  BY <1>1, SpeedAssumption
<1>4. MOTOR_TIMER_FREQ \div (THRESV - 1) <= MOTOR_TIMER_FREQ \div (2 * v)
  BY <1>3, QuotientOrder, SpeedAssumption
<1>5. /\ MOTOR_TIMER_FREQ \div THRESV \in Nat
      /\ MOTOR_TIMER_FREQ \div (THRESV - 1) \in Nat
      /\ MOTOR_TIMER_FREQ \div (2 * v) \in Nat
  BY <1>3, Quotient, SpeedAssumption
<1>6. MOTOR_TIMER_FREQ \div THRESV < MOTOR_TIMER_FREQ \div (THRESV - 1)
  BY PulseAssumption
<1> QED
  BY <1>2, <1>4, <1>5, <1>6 DEF PULSE

-----------------------------------------------------------------------------
(* The bursts, and what is left of them.                                   *)

(* A burst of two calls.                                                   *)
LEMMA TwoCalls ==
  ASSUME NEW v \in WheelName, NEW w \in WheelName, NEW r \in Int, NEW s \in Int
  PROVE  LET b == <<Ask(v, r), Ask(w, s)>>
         IN  /\ b \in Seq(Calls) /\ Len(b) = 2
             /\ b[1].wheel = v /\ b[1].speed = r /\ b[2].wheel = w /\ b[2].speed = s
<1>1. Ask(v, r) \in Calls /\ Ask(w, s) \in Calls
  BY DEF Ask, Calls
<1>2. <<Ask(v, r), Ask(w, s)>> \in Seq(Calls)
  BY <1>1
<1> QED
  BY <1>2 DEF Ask

(* What the threads of low priority ask for has the shape of a LowBurst.   *)
LEMMA LowBurstsTyped == \A b \in LowBursts : LowBurst(b)
<1>1. \A r, s \in Int : LowBurst(LeftRight(r, s)) /\ LowBurst(RightLeft(r, s))
  <2> SUFFICES ASSUME NEW r \in Int, NEW s \in Int
               PROVE  LowBurst(LeftRight(r, s)) /\ LowBurst(RightLeft(r, s))
    OBVIOUS
  <2>1. "left" \in WheelName /\ "right" \in WheelName
    BY DEF WheelName
  <2> QED
    BY <2>1, TwoCalls DEF LowBurst, LeftRight, RightLeft
<1>2. /\ SPEED_BUTTERFLY \in Int /\ -SPEED_BUTTERFLY \in Int /\ 0 \in Int
      /\ SPEED_APPROACH \in Int /\ -SPEED_APPROACH \in Int
      /\ ROTATION_SPEED \in Int /\ -ROTATION_SPEED \in Int
      /\ SPEED_ANIMATION1 \in Int /\ -SPEED_ANIMATION1 \in Int
      /\ SPEED_ANIMATION2 \in Int /\ -SPEED_ANIMATION2 \in Int
  BY SpeedAssumption
<1>3. \A s \in PidSpeed \cup {-size : size \in PidSpeed} : s \in Int
  BY SpeedAssumption
<1> QED
  BY <1>1, <1>2, <1>3, Zenon DEF LowBursts, WalkBursts, ScanBursts, PidBursts

(* What avoid_obstacles asks for has the shape of an AvoidBurst.           *)
LEMMA AvoidBurstsTyped == \A b \in AvoidBursts : AvoidBurst(b)
<1>1. /\ \A w \in WheelName : w = "left" \/ w = "right"
      /\ "left" \in WheelName /\ "right" \in WheelName
  BY DEF WheelName
<1>2. ASSUME NEW s \in Int, NEW r \in Int, ~SavesPower(s), ~SavesPower(r)
      PROVE  AvoidBurst(LeftRight(s, r))
  <2> DEFINE b == LeftRight(s, r)
  <2>1. /\ b \in Seq(Calls) /\ Len(b) = 2 /\ b[1].wheel = "left" /\ b[2].wheel = "right"
        /\ b[1].speed = s /\ b[2].speed = r
    BY <1>1, TwoCalls DEF LeftRight
  <2> HIDE DEF b
  <2>2. \A w \in WheelName : \E i \in 1 .. Len(b) : b[i].wheel = w
    BY <1>1, <2>1
  <2>3. \A i \in 1 .. Len(b) : ~SavesPower(b[i].speed)
    BY <1>2, <2>1
  <2>4. AvoidBurst(b)
    BY <2>1, <2>2, <2>3 DEF AvoidBurst
  <2> QED
    BY <2>4 DEF b
<1>3. ~SavesPower(0)
  BY DEF SavesPower
<1>4. ASSUME NEW s \in Int, NEW r \in Int, ~SavesPower(s), ~SavesPower(r)
      PROVE  AvoidBurst(LeftRight(0, 0) \o LeftRight(s, r))
  <2> DEFINE b == LeftRight(0, 0)
             c == LeftRight(s, r)
             d == b \o c
  <2>1. /\ b \in Seq(Calls) /\ Len(b) = 2 /\ b[1].wheel = "left" /\ b[2].wheel = "right"
        /\ b[1].speed = 0 /\ b[2].speed = 0
    BY <1>1, TwoCalls DEF LeftRight
  <2>2. /\ c \in Seq(Calls) /\ Len(c) = 2 /\ c[1].speed = s /\ c[2].speed = r
    BY <1>1, TwoCalls DEF LeftRight
  <2> HIDE DEF b, c
  <2>3. /\ d \in Seq(Calls) /\ Len(d) = 4
        /\ d[1] = b[1] /\ d[2] = b[2] /\ d[3] = c[1] /\ d[4] = c[2]
    <3>1. /\ d \in Seq(Calls) /\ Len(d) = Len(b) + Len(c)
          /\ \A i \in 1 .. Len(b) + Len(c) : d[i] = IF i <= Len(b) THEN b[i] ELSE c[i - Len(b)]
      BY <2>1, <2>2, ConcatProperties, Zenon
    <3> HIDE DEF d
    <3> USE <2>1, <2>2
    <3> QED
      BY <3>1
  <2> HIDE DEF d
  <2>4. \A w \in WheelName : \E i \in 1 .. Len(d) : d[i].wheel = w
    BY <1>1, <2>1, <2>3
  <2>5. \A i \in 1 .. Len(d) : ~SavesPower(d[i].speed)
    BY <1>3, <1>4, <2>1, <2>2, <2>3
  <2>6. AvoidBurst(d)
    BY <2>3, <2>4, <2>5 DEF AvoidBurst
  <2> QED
    BY <2>6 DEF d, b, c
<1>5. ASSUME NEW s \in {SPEED_ROTATION, -SPEED_ROTATION, AVOIDANCE_SPEED}
      PROVE  s \in Int /\ ~SavesPower(s)
  <2>1. s \in Int /\ Size(s) \in 1 .. MOTOR_SPEED_LIMIT /\ 2 * Size(s) >= THRESV
    BY SpeedAssumption, PulseAssumption DEF Size
  <2>2. Size(Microsteps(s)) = 2 * Size(s)
    BY <2>1, LimitedTyped, SpeedAssumption
  <2>3. THRESV \in Int /\ Size(s) \in Int
    BY <2>1, SpeedAssumption
  <2>4. ~(Size(Microsteps(s)) < THRESV)
    BY <2>1, <2>2, <2>3
  <2> QED
    BY <2>1, <2>4, Zenon DEF SavesPower
<1>6. -(-SPEED_ROTATION) = SPEED_ROTATION
  BY SpeedAssumption
<1>7. \A b \in TurnBursts : AvoidBurst(b)
  BY <1>4, <1>5, <1>6 DEF TurnBursts
<1> QED
  BY <1>2, <1>3, <1>5, <1>7 DEF AvoidBursts, AheadBurst, StopBurst

(* When the first of the calls left is made, the others are still the end. *)
LEMMA EndsTail ==
  ASSUME NEW rest, NEW burst, Ends(rest, burst), burst \in Seq(Calls), rest # <<>>
  PROVE  /\ Ends(Tail(rest), burst)
         /\ Head(rest) \in Calls /\ Head(rest) = rest[1] /\ Len(rest) >= 1
         /\ Len(Tail(rest)) = Len(rest) - 1
         /\ \A i \in 1 .. Len(Tail(rest)) : Tail(rest)[i] = rest[i + 1]
<1>1. rest \in Seq(Calls) /\ Len(rest) <= Len(burst) /\ Len(burst) \in Nat
  BY DEF Ends
<1>2. /\ Tail(rest) \in Seq(Calls) /\ Head(rest) \in Calls /\ Head(rest) = rest[1]
      /\ Len(rest) \in Nat /\ Len(rest) >= 1 /\ Len(Tail(rest)) = Len(rest) - 1
      /\ \A i \in 1 .. Len(Tail(rest)) : Tail(rest)[i] = rest[i + 1]
  BY <1>1, SMT
<1>3. ASSUME NEW i \in 1 .. Len(Tail(rest))
      PROVE  Tail(rest)[i] = burst[i + Len(burst) - Len(Tail(rest))]
  <2>1. i + 1 \in 1 .. Len(rest) /\ Tail(rest)[i] = rest[i + 1]
    BY <1>2
  <2>2. rest[i + 1] = burst[(i + 1) + Len(burst) - Len(rest)]
    BY <2>1 DEF Ends
  <2>3. (i + 1) + Len(burst) - Len(rest) = i + Len(burst) - Len(Tail(rest))
    BY <1>1, <1>2
  <2> QED
    BY <2>1, <2>2, <2>3
<1>4. Ends(Tail(rest), burst)
  BY <1>1, <1>2, <1>3 DEF Ends
<1> QED
  BY <1>2, <1>4

(* A call after which no other is for its wheel asks for the final speed.  *)
LEMMA LastCall ==
  ASSUME NEW rest, NEW burst, Ends(rest, burst), burst \in Seq(Calls), rest # <<>>,
         NEW w, Head(rest).wheel = w, Through(Tail(rest), w)
  PROVE  Final(burst, w) = Head(rest).speed
<1> DEFINE n == 1 + Len(burst) - Len(rest)
           P(i) == burst[i].wheel = w /\ \A j \in DOMAIN burst : j > i => burst[j].wheel # w
<1>1. /\ rest \in Seq(Calls) /\ Len(rest) \in Nat /\ Len(burst) \in Nat
      /\ Len(rest) <= Len(burst) /\ Len(rest) >= 1
      /\ Len(Tail(rest)) = Len(rest) - 1 /\ DOMAIN burst = 1 .. Len(burst)
  BY EndsTail DEF Ends
<1>2. n \in DOMAIN burst /\ burst[n] = Head(rest)
  <2>1. rest[1] = burst[n] /\ Head(rest) = rest[1]
    BY <1>1, EndsTail DEF Ends
  <2> QED
    BY <1>1, <2>1
<1>3. ASSUME NEW j \in DOMAIN burst, j > n PROVE burst[j].wheel # w
  <2> DEFINE i == j - n
  <2>1. i \in 1 .. Len(Tail(rest))
    BY <1>1, <1>3
  <2>2. Tail(rest)[i] = rest[i + 1] /\ i + 1 \in 1 .. Len(rest)
    BY <1>1, <2>1, EndsTail
  <2>3. rest[i + 1] = burst[(i + 1) + Len(burst) - Len(rest)]
    BY <2>2 DEF Ends
  <2>4. (i + 1) + Len(burst) - Len(rest) = j
    BY <1>1, <1>3
  <2> HIDE DEF i
  <2> QED
    BY <2>1, <2>2, <2>3, <2>4 DEF Through
<1>4. P(n)
  BY <1>2, <1>3
<1>5. ASSUME NEW i \in DOMAIN burst, P(i) PROVE i = n
  <2>1. i \in Int /\ n \in Int
    BY <1>1
  <2>2. ~(i > n) /\ ~(n > i)
    BY <1>2, <1>4, <1>5
  <2> QED
    BY <2>1, <2>2
<1> HIDE DEF n
<1>6. (CHOOSE i \in DOMAIN burst : P(i)) = n
  BY <1>2, <1>4, <1>5, Zenon
<1>7. Final(burst, w) = burst[n].speed
  BY <1>6, Zenon DEF Final
<1> QED
  BY <1>2, <1>7

-----------------------------------------------------------------------------
(* The steps of module Motors.                                             *)

Shaped(t, b) == IF t = "low" THEN LowBurst(b) ELSE AvoidBurst(b)

(* Every step begins a burst of such a shape or goes on with a call.       *)
LEMMA MotorsSteps ==
  ASSUME [MotorsNext]_motorsVars
  PROVE  \/ \E t \in Caller, b \in Seq(Calls) : Begin(t, b) /\ Shaped(t, b)
         \/ \E t \in Caller : set_direction(t) \/ set_channel(t) \/ enable_notification(t)
                              \/ change_period(t)
         \/ UNCHANGED motorsVars
<1>1. ASSUME low_bursts PROVE \E b \in Seq(Calls) : Begin("low", b) /\ Shaped("low", b)
  BY <1>1, LowBurstsTyped DEF low_bursts, Shaped, LowBurst
<1>2. ASSUME avoid_bursts PROVE \E b \in Seq(Calls) : Begin("avoid", b) /\ Shaped("avoid", b)
  <2>1. \E b \in AvoidBursts : Begin("avoid", b)
    BY <1>2, Zenon DEF avoid_bursts, AvoidBursts
  <2> QED
    BY <2>1, AvoidBurstsTyped DEF Shaped, AvoidBurst
<1>3. "low" \in Caller /\ "avoid" \in Caller
  BY DEF Caller
<1> QED
  BY <1>1, <1>2, <1>3, Zenon DEF MotorsNext

(* The bursts differ from the list that is empty. *)
LEMMA ShapedBursts ==
  ASSUME NEW t, NEW b \in Seq(Calls), Shaped(t, b)
  PROVE  /\ b # <<>> /\ Len(b) \in {2, 4} /\ Ends(b, b)
         /\ \A w \in WheelName : ~Through(b, w)
<1>1. Len(b) \in {2, 4} /\ b # <<>> /\ Len(b) \in Nat
  BY DEF Shaped, LowBurst, AvoidBurst
<1>2. Ends(b, b)
  <2>1. \A i \in 1 .. Len(b) : i + Len(b) - Len(b) = i
    BY <1>1
  <2> QED
    BY <1>1, <2>1 DEF Ends
<1>3. \A w \in WheelName : ~Through(b, w)
  <2>1. CASE LowBurst(b)
    <3>1. b[1] \in Calls /\ b[2] \in Calls /\ 1 \in 1 .. Len(b) /\ 2 \in 1 .. Len(b)
      BY <2>1, <1>1, ElementOfSeq DEF LowBurst
    <3> QED
      BY <2>1, <3>1 DEF LowBurst, Through, Calls, WheelName
  <2>2. CASE AvoidBurst(b)
    BY <2>2 DEF AvoidBurst, Through
  <2> QED
    BY <2>1, <2>2 DEF Shaped
<1> QED
  BY <1>1, <1>2, <1>3

(* The call a thread is in is one, for one of the wheels. *)
LEMMA CallTyped ==
  ASSUME BurstsInv, NEW t \in Caller, ~Idle(t)
  PROVE  /\ Call(t) \in Calls /\ Call(t).wheel \in WheelName /\ Call(t).speed \in Int
         /\ Call(t) = todo[t][1] /\ Len(todo[t]) \in Nat /\ Len(todo[t]) >= 1
         /\ Len(Tail(todo[t])) = Len(todo[t]) - 1
         /\ \A i \in 1 .. Len(Tail(todo[t])) : Tail(todo[t])[i] = todo[t][i + 1]
         /\ Ends(Tail(todo[t]), asked[t]) /\ Tail(todo[t]) \in Seq(Calls)
<1>1. Ends(todo[t], asked[t]) /\ asked[t] \in Seq(Calls) /\ todo[t] # <<>> /\ todo[t] \in Seq(Calls)
  BY DEF BurstsInv, Idle
<1>2. /\ Ends(Tail(todo[t]), asked[t])
      /\ Head(todo[t]) \in Calls /\ Head(todo[t]) = todo[t][1] /\ Len(todo[t]) >= 1
      /\ Len(Tail(todo[t])) = Len(todo[t]) - 1
      /\ \A i \in 1 .. Len(Tail(todo[t])) : Tail(todo[t])[i] = todo[t][i + 1]
  BY <1>1, EndsTail
<1>3. Call(t) \in Calls /\ Call(t).wheel \in WheelName /\ Call(t).speed \in Int
  BY <1>2 DEF Call, Calls
<1>4. Tail(todo[t]) \in Seq(Calls) /\ Len(todo[t]) \in Nat
  BY <1>1, <1>2 DEF Ends
<1> QED
  BY <1>2, <1>3, <1>4 DEF Call

(* The calls left of a burst stay its last ones.                           *)
LEMMA BurstsStep ==
  ASSUME MotorsTypeOK, BurstsInv, [MotorsNext]_motorsVars
  PROVE  BurstsInv'
<1> USE DEF BurstsInv
<1>1. ASSUME NEW t \in Caller, NEW b \in Seq(Calls), Begin(t, b), Shaped(t, b)
      PROVE  BurstsInv'
  <2>1. /\ todo' = [todo EXCEPT ![t] = b] /\ asked' = [asked EXCEPT ![t] = b] /\ at' = at
        /\ b # <<>> /\ Ends(b, b)
    BY <1>1, ShapedBursts DEF Begin
  <2>2. asked' \in [Caller -> Seq(Calls)] /\ todo' \in [Caller -> Seq(Calls)]
    BY <2>1
  <2>3. /\ asked'["low"] # <<>> => LowBurst(asked'["low"])
        /\ asked'["avoid"] # <<>> => AvoidBurst(asked'["avoid"])
    BY <1>1, <2>1 DEF Shaped, Caller
  <2>4. \A s \in Caller : Ends(todo'[s], asked'[s])
    BY <2>1
  <2>5. \A s \in Caller : Idle(s)' => at'[s] = "direction"
    BY <2>1 DEF Idle
  <2> QED
    BY <2>2, <2>3, <2>4, <2>5
<1>2. ASSUME NEW t \in Caller, set_direction(t) \/ set_channel(t) \/ enable_notification(t)
      PROVE  BurstsInv'
  <2>1. /\ todo' = todo /\ asked' = asked /\ ~Idle(t)
        /\ at' = at \/ at' = [at EXCEPT ![t] = "channel"]
           \/ at' = [at EXCEPT ![t] = "notification"] \/ at' = [at EXCEPT ![t] = "period"]
    BY <1>2 DEF set_direction, set_channel, enable_notification, Underway, Goes, history
  <2>2. \A s \in Caller : Idle(s)' => at'[s] = "direction"
    BY <2>1 DEF Idle, MotorsTypeOK
  <2> QED
    BY <2>1, <2>2
<1>3. ASSUME NEW t \in Caller, change_period(t) PROVE BurstsInv'
  <2>1. /\ todo' = [todo EXCEPT ![t] = Tail(todo[t])] /\ asked' = asked /\ ~Idle(t)
        /\ at' = [at EXCEPT ![t] = "direction"]
    BY <1>3 DEF change_period, Underway, history
  <2>2. Ends(Tail(todo[t]), asked[t]) /\ Tail(todo[t]) \in Seq(Calls)
    BY <2>1, CallTyped
  <2>3. todo' \in [Caller -> Seq(Calls)] /\ \A s \in Caller : Ends(todo'[s], asked'[s])
    BY <2>1, <2>2
  <2>4. \A s \in Caller : Idle(s)' => at'[s] = "direction"
    BY <2>1 DEF Idle, MotorsTypeOK
  <2> QED
    BY <2>1, <2>3, <2>4
<1>4. CASE UNCHANGED motorsVars
  BY <1>4 DEF motorsVars, history, Idle
<1> QED
  BY <1>1, <1>2, <1>3, <1>4, MotorsSteps

(* What one step of a call does, to the wheel of the call and nowhere else. *)
LEMMA CallSteps ==
  ASSUME MotorsTypeOK, BurstsInv, NEW t \in Caller
  PROVE  LET w == Call(t).wheel
             v == Call(t).speed
         IN
         /\ set_direction(t) =>
              /\ wheel' = [wheel EXCEPT ![w].direction = Direction(v)]
              /\ at[t] = "direction" /\ at' = [at EXCEPT ![t] = "channel"]
         /\ set_channel(t) =>
              /\ wheel' = [wheel EXCEPT ![w].enabled = SavesPower(v)]
              /\ at[t] = "channel"
              /\ at' = [at EXCEPT ![t] = IF SavesPower(v) THEN "notification" ELSE "period"]
         /\ enable_notification(t) =>
              /\ wheel' = wheel /\ at[t] = "notification"
              /\ at' = at \/ at' = [at EXCEPT ![t] = "period"]
         /\ change_period(t) =>
              /\ wheel' = [wheel EXCEPT ![w].period = Interval(v)]
              /\ at[t] = "period" /\ at' = [at EXCEPT ![t] = "direction"]
              /\ todo' = [todo EXCEPT ![t] = Tail(todo[t])]
         /\ set_direction(t) \/ set_channel(t) \/ enable_notification(t) => todo' = todo
         /\ set_direction(t) \/ set_channel(t) \/ enable_notification(t) \/ change_period(t) =>
              ~Idle(t) /\ MayRun(t) /\ UNCHANGED <<manoeuvre, asked, latest, cut>>
BY DEF set_direction, set_channel, enable_notification, change_period, Underway, Goes, history

(* Who was cut stays below the one that cut it, until it goes on.          *)
LEMMA WhoStep ==
  ASSUME MotorsTypeOK, BurstsInv, WhoInv, [MotorsNext]_motorsVars
  PROVE  WhoInv'
<1> USE DEF WhoInv
<1>1. ASSUME NEW t \in Caller, NEW b \in Seq(Calls), Begin(t, b), Shaped(t, b)
      PROVE  WhoInv'
  <2>1. /\ todo' = [todo EXCEPT ![t] = b] /\ asked' = [asked EXCEPT ![t] = b] /\ latest' = t
        /\ cut' = (t = "avoid" /\ ~Idle("low")) /\ Idle(t) /\ MayRun(t)
        /\ b # <<>> /\ todo \in [Caller -> Seq(Calls)] /\ asked \in [Caller -> Seq(Calls)]
    BY <1>1, ShapedBursts DEF Begin, BurstsInv
  <2>2. \A s \in Caller : ~Idle(s)' => s = latest' \/ (cut' /\ s = "low")
    BY <2>1, Zenon DEF Idle, MayRun, Caller
  <2>3. ~Idle("low") => asked["low"] # <<>>
    <3>1. /\ Ends(todo["low"], asked["low"]) /\ todo["low"] \in Seq(Calls)
          /\ asked["low"] \in Seq(Calls)
      BY DEF BurstsInv, Caller
    <3>2. asked["low"] = <<>> => Len(todo["low"]) = 0
      BY <3>1 DEF Ends
    <3> QED
      BY <3>1, <3>2 DEF Idle
  <2>4. cut' => latest' = "avoid" /\ asked'["low"] # <<>>
    <3>1. cut' => t = "avoid" /\ ~Idle("low")
      BY <2>1, Zenon
    <3> QED
      BY <2>1, <2>3, <3>1 DEF Caller
  <2>5. asked'[latest'] # <<>>
    BY <2>1
  <2> QED
    BY <2>2, <2>4, <2>5, Zenon
<1>2. ASSUME NEW t \in Caller, set_direction(t) \/ set_channel(t) \/ enable_notification(t)
      PROVE  WhoInv'
  <2>1. todo' = todo /\ UNCHANGED <<asked, latest, cut>>
    BY <1>2, CallSteps, Zenon
  <2> QED
    BY <2>1, Zenon DEF Idle
<1>3. ASSUME NEW t \in Caller, change_period(t) PROVE WhoInv'
  <2>1. /\ todo' = [todo EXCEPT ![t] = Tail(todo[t])] /\ ~Idle(t)
        /\ UNCHANGED <<asked, latest, cut>> /\ todo \in [Caller -> Seq(Calls)]
    BY <1>3, CallSteps, Zenon DEF BurstsInv
  <2>2. \A s \in Caller : ~Idle(s)' => ~Idle(s)
    BY <2>1, Zenon DEF Idle
  <2> QED
    BY <2>1, <2>2, Zenon
<1>4. CASE UNCHANGED motorsVars
  BY <1>4, Zenon DEF motorsVars, history, Idle
<1> QED
  BY <1>1, <1>2, <1>3, <1>4, MotorsSteps

(* A step of a call keeps what its burst has done so far.                  *)
LEMMA ProgressOfCall ==
  ASSUME MotorsTypeOK, BurstsInv, NEW t \in Caller, Progress(t),
         set_direction(t) \/ set_channel(t) \/ enable_notification(t) \/ change_period(t)
  PROVE  Progress(t)'
<1> DEFINE c == Call(t).wheel
           v == Call(t).speed
<1>1. /\ c \in WheelName /\ v \in Int /\ Call(t) = todo[t][1] /\ Len(todo[t]) \in Nat
      /\ Len(todo[t]) >= 1 /\ ~Idle(t) /\ asked' = asked
  BY CallTyped, CallSteps
<1>2. ~Through(todo[t], c)
  BY <1>1 DEF Through
<1>3. \A w \in WheelName : wheel[w] \in [direction : {"HALT", "FORWARD", "BACKWARD"},
                                        period : Period, enabled : BOOLEAN]
  BY DEF MotorsTypeOK
<1>4. at \in [Caller -> {"direction", "channel", "notification", "period"}]
      /\ wheel \in [WheelName -> [direction : {"HALT", "FORWARD", "BACKWARD"},
                                  period : Period, enabled : BOOLEAN]]
  BY DEF MotorsTypeOK
<1>5. CASE set_direction(t)
  <2>1. /\ wheel' = [wheel EXCEPT ![c].direction = Direction(v)] /\ todo' = todo
        /\ at' = [at EXCEPT ![t] = "channel"]
    BY <1>5, CallSteps
  <2> HIDE DEF c, v
  <2>2. \A w \in WheelName : w # c => wheel'[w] = wheel[w]
    BY <2>1, <1>4
  <2>3. wheel'[c].direction = Direction(v)
    BY <2>1, <1>1, <1>4
  <2>4. \A w \in WheelName : Through(todo[t], w) =>
          Final(asked[t], w) \in Int /\ SetTo(wheel'[w], Final(asked[t], w))
    BY <1>1, <1>2, <2>2, Zenon DEF Progress, SetTo
  <2>5. at'[t] = "channel"
    BY <2>1, <1>4
  <2> QED
    BY <1>1, <2>1, <2>3, <2>4, <2>5 DEF Progress, Idle, Call, c, v
<1>6. CASE set_channel(t)
  <2>1. /\ wheel' = [wheel EXCEPT ![c].enabled = SavesPower(v)] /\ todo' = todo
        /\ at[t] = "channel"
    BY <1>6, CallSteps
  <2> HIDE DEF c, v
  <2>2. \A w \in WheelName : w # c => wheel'[w] = wheel[w]
    BY <2>1, <1>4
  <2>3. wheel'[c].enabled = SavesPower(v) /\ wheel'[c].direction = wheel[c].direction
    BY <2>1, <1>1, <1>4, Zenon
  <2>4. \A w \in WheelName : Through(todo[t], w) =>
          Final(asked[t], w) \in Int /\ SetTo(wheel'[w], Final(asked[t], w))
    BY <1>1, <1>2, <2>2, Zenon DEF Progress, SetTo
  <2>5. wheel[c].direction = Direction(v)
    BY <1>1, <2>1 DEF Progress, c, v
  <2> QED
    BY <1>1, <2>1, <2>3, <2>4, <2>5, Zenon DEF Progress, Idle, Call, c, v
<1>7. CASE enable_notification(t)
  <2>1. /\ wheel' = wheel /\ todo' = todo /\ at[t] = "notification"
    BY <1>7, CallSteps
  <2>2. \A w \in WheelName : Through(todo[t], w) =>
          Final(asked[t], w) \in Int /\ SetTo(wheel'[w], Final(asked[t], w))
    BY <1>1, <2>1, Zenon DEF Progress, SetTo
  <2>3. wheel[c].direction = Direction(v) /\ wheel[c].enabled = SavesPower(v)
    BY <1>1, <2>1 DEF Progress
  <2> QED
    BY <1>1, <2>1, <2>2, <2>3, Zenon DEF Progress, Idle, Call
<1>8. CASE change_period(t)
  <2>1. /\ wheel' = [wheel EXCEPT ![c].period = Interval(v)]
        /\ at[t] = "period" /\ at' = [at EXCEPT ![t] = "direction"]
        /\ todo' = [todo EXCEPT ![t] = Tail(todo[t])] /\ todo \in [Caller -> Seq(Calls)]
    BY <1>8, CallSteps DEF BurstsInv
  <2>2. wheel[c].direction = Direction(v) /\ wheel[c].enabled = SavesPower(v)
    BY <1>1, <2>1 DEF Progress
  <2>3. todo'[t] = Tail(todo[t]) /\ at'[t] = "direction"
    BY <2>1, <1>4
  <2>4. ASSUME Through(Tail(todo[t]), c) PROVE Final(asked[t], c) = v
    BY <1>1, <2>4, LastCall DEF BurstsInv, Idle, Call
  <2>5. ASSUME NEW w \in WheelName, w # c, Through(Tail(todo[t]), w)
        PROVE  Through(todo[t], w)
    <3> SUFFICES ASSUME NEW i \in 1 .. Len(todo[t]) PROVE todo[t][i].wheel # w
      BY DEF Through
    <3>1. CASE i = 1
      BY <1>1, <2>5, <3>1
    <3>2. CASE i # 1
      <4>1. i - 1 \in 1 .. Len(Tail(todo[t])) /\ Tail(todo[t])[i - 1] = todo[t][(i - 1) + 1]
        BY <1>1, <3>2, CallTyped
      <4>2. (i - 1) + 1 = i
        OBVIOUS
      <4> QED
        BY <2>5, <4>1, <4>2 DEF Through
    <3> QED
      BY <3>1, <3>2
  <2> HIDE DEF c, v
  <2>6. \A w \in WheelName : w # c => wheel'[w] = wheel[w]
    BY <2>1, <1>4
  <2>7. /\ wheel'[c].enabled = wheel[c].enabled /\ wheel'[c].direction = wheel[c].direction
        /\ wheel'[c].period = Interval(v)
    BY <2>1, <1>1, <1>4, Zenon
  <2>8. SetTo(wheel'[c], v)
    BY <2>2, <2>7, Zenon DEF SetTo
  <2>9. \A w \in WheelName : Through(Tail(todo[t]), w) =>
          Final(asked[t], w) \in Int /\ SetTo(wheel'[w], Final(asked[t], w))
    <3> SUFFICES ASSUME NEW w \in WheelName, Through(Tail(todo[t]), w)
                 PROVE  Final(asked[t], w) \in Int /\ SetTo(wheel'[w], Final(asked[t], w))
      OBVIOUS
    <3>1. CASE w = c
      BY <1>1, <2>4, <2>8, <3>1, Zenon DEF SetTo
    <3>2. CASE w # c
      BY <1>1, <2>5, <2>6, <3>2, Zenon DEF Progress, SetTo
    <3> QED
      BY <3>1, <3>2
  <2> QED
    BY <1>1, <2>3, <2>9 DEF Progress
<1> QED
  BY <1>5, <1>6, <1>7, <1>8

(* Only the thread that began last makes calls, unless it is idle and the  *)
(* one that it has cut goes on.                                            *)
LEMMA ProgressStep ==
  ASSUME MotorsTypeOK, BurstsInv, WhoInv, ProgressInv, [MotorsNext]_motorsVars
  PROVE  ProgressInv'
<1>1. ASSUME NEW t \in Caller, NEW b \in Seq(Calls), Begin(t, b), Shaped(t, b)
      PROVE  ProgressInv'
  <2>1. /\ todo' = [todo EXCEPT ![t] = b] /\ latest' = t /\ at' = at /\ Idle(t)
        /\ todo \in [Caller -> Seq(Calls)] /\ \A w \in WheelName : ~Through(b, w)
    BY <1>1, ShapedBursts DEF Begin, BurstsInv
  <2>2. todo'[t] = b /\ at'[t] = "direction"
    BY <2>1 DEF BurstsInv
  <2>3. Progress(t)'
    BY <2>1, <2>2 DEF Progress
  <2> QED
    BY <2>1, <2>3, Zenon DEF ProgressInv, Progress, Idle, Call
<1>2. ASSUME NEW t \in Caller,
             set_direction(t) \/ set_channel(t) \/ enable_notification(t) \/ change_period(t)
      PROVE  ProgressInv'
  <2>1. ~Idle(t) /\ MayRun(t) /\ UNCHANGED <<latest, cut>>
    BY <1>2, CallSteps, Zenon
  <2>2. CASE t = latest
    <3>1. latest # "nobody" /\ Progress(t)
      BY <2>1, <2>2 DEF ProgressInv, Caller
    <3>2. Progress(t)'
      BY <1>2, <3>1, ProgressOfCall
    <3> QED
      BY <2>1, <2>2, <3>2, Zenon DEF ProgressInv, Progress, Idle, Call
  <2>3. CASE t # latest
    <3>1. cut /\ latest = "avoid" /\ Idle("avoid") /\ t = "low"
      BY <2>1, <2>3, Zenon DEF WhoInv, MayRun
    <3>2. todo'["avoid"] = todo["avoid"]
      <4>1. todo' = todo \/ todo' = [todo EXCEPT !["low"] = Tail(todo["low"])]
        BY <1>2, <3>1, CallSteps, Zenon
      <4> QED
        BY <4>1 DEF BurstsInv, Caller
    <3> QED
      BY <2>1, <3>1, <3>2, Zenon DEF ProgressInv, Idle
  <2> QED
    BY <2>2, <2>3
<1>3. CASE UNCHANGED motorsVars
  BY <1>3, Zenon DEF motorsVars, history, ProgressInv, Progress, SetTo, Idle, Call
<1> QED
  BY <1>1, <1>2, <1>3, MotorsSteps

(* A call of avoid_obstacles does not save power: it has only such left.   *)
LEMMA AvoidNeverSaves ==
  ASSUME BurstsInv, ~Idle("avoid")
  PROVE  ~SavesPower(Call("avoid").speed)
<1> DEFINE b == asked["avoid"]
           r == todo["avoid"]
<1>1. /\ Call("avoid") = r[1] /\ Len(r) \in Nat /\ Len(r) >= 1 /\ Ends(r, b)
      /\ b \in Seq(Calls) /\ Len(b) \in Nat
  BY CallTyped DEF BurstsInv, Caller
<1> HIDE DEF r, b
<1>2. Len(r) <= Len(b) /\ r[1] = b[1 + Len(b) - Len(r)]
  <2>1. 1 \in 1 .. Len(r)
    BY <1>1
  <2> QED
    BY <1>1, <2>1, Zenon DEF Ends
<1>3. b # <<>>
  <2>1. Len(b) # 0
    BY <1>1, <1>2
  <2> QED
    BY <2>1
<1>4. AvoidBurst(b)
  BY <1>3, Zenon DEF BurstsInv, b
<1>5. 1 + Len(b) - Len(r) \in 1 .. Len(b)
  BY <1>1, <1>2
<1> QED
  BY <1>1, <1>2, <1>4, <1>5, Zenon DEF AvoidBurst

(* No step puts a period into a counter that has passed it.                *)
LEMMA PulseStep ==
  ASSUME MotorsTypeOK, BurstsInv, PulseInv, [MotorsNext]_motorsVars
  PROVE  PulseInv'
<1>0. /\ at \in [Caller -> {"direction", "channel", "notification", "period"}]
      /\ wheel \in [WheelName -> [direction : {"HALT", "FORWARD", "BACKWARD"},
                                  period : Period, enabled : BOOLEAN]]
      /\ todo \in [Caller -> Seq(Calls)]
  BY DEF MotorsTypeOK, BurstsInv
<1>1. ASSUME NEW t \in Caller, NEW b \in Seq(Calls), Begin(t, b), Shaped(t, b)
      PROVE  PulseInv'
  <2>1. /\ todo' = [todo EXCEPT ![t] = b] /\ at' = at /\ wheel' = wheel /\ Idle(t)
    BY <1>1 DEF Begin
  <2>2. at'[t] = "direction" /\ \A s \in Caller : s # t => todo'[s] = todo[s]
    BY <1>0, <2>1 DEF BurstsInv
  <2> QED
    BY <2>1, <2>2, Zenon DEF PulseInv, Idle, Call
<1>2. ASSUME NEW t \in Caller,
             set_direction(t) \/ set_channel(t) \/ enable_notification(t) \/ change_period(t)
      PROVE  PulseInv'
  <2>1. /\ ~Idle(t) /\ MayRun(t) /\ Call(t).wheel \in WheelName
    BY <1>2, CallSteps, CallTyped, Zenon
  <2>2. ASSUME NEW s \in Caller, s # t
        PROVE  /\ at'[s] = at[s] /\ todo'[s] = todo[s]
               /\ ~Idle(s) /\ at[s] = "period" /\ wheel'[Call(s).wheel].enabled
                    => wheel[Call(s).wheel].enabled
    <3>1. at'[s] = at[s] /\ todo'[s] = todo[s]
      <4>1. /\ at' = at \/ \E place : at' = [at EXCEPT ![t] = place]
            /\ todo' = todo \/ todo' = [todo EXCEPT ![t] = Tail(todo[t])]
        BY <1>2, CallSteps, Zenon
      <4> QED
        BY <1>0, <2>2, <4>1
    <3>2. ASSUME ~Idle(s) PROVE s = "low" /\ t = "avoid" /\ Call(s).wheel \in WheelName
      BY <2>1, <2>2, <3>2, CallTyped DEF MayRun, Caller
    <3>3. ASSUME NEW w \in WheelName, t = "avoid", wheel'[w].enabled PROVE wheel[w].enabled
      <4>1. CASE set_direction(t)
        <5>1. wheel' = [wheel EXCEPT ![Call(t).wheel].direction = Direction(Call(t).speed)]
          BY <4>1, CallSteps, Zenon
        <5> QED
          BY <1>0, <3>3, <5>1
      <4>2. CASE set_channel(t)
        <5>1. wheel' = [wheel EXCEPT ![Call(t).wheel].enabled = SavesPower(Call(t).speed)]
          BY <4>2, CallSteps, Zenon
        <5>2. ~SavesPower(Call(t).speed)
          BY <2>1, <3>3, AvoidNeverSaves
        <5> QED
          BY <1>0, <3>3, <5>1, <5>2
      <4>3. CASE enable_notification(t)
        BY <3>3, <4>3, CallSteps, Zenon
      <4>4. CASE change_period(t)
        <5>1. wheel' = [wheel EXCEPT ![Call(t).wheel].period = Interval(Call(t).speed)]
          BY <4>4, CallSteps, Zenon
        <5> QED
          BY <1>0, <3>3, <5>1
      <4> QED
        BY <1>2, <4>1, <4>2, <4>3, <4>4
    <3> QED
      BY <3>1, <3>2, <3>3, Zenon
  <2>3. /\ at'[t] = "notification" => ~Idle(t)' /\ SavesPower(Call(t).speed)
        /\ at'[t] = "period" /\ wheel'[Call(t).wheel].enabled => SavesPower(Call(t).speed)
        /\ todo'[t] = todo[t] \/ at'[t] = "direction"
    <3>1. CASE set_direction(t)
      <4>1. todo' = todo /\ at'[t] = "channel"
        BY <1>0, <3>1, CallSteps
      <4> QED
        BY <4>1
    <3>2. CASE set_channel(t)
      <4>1. /\ at' = [at EXCEPT ![t] = IF SavesPower(Call(t).speed) THEN "notification" ELSE "period"]
            /\ wheel' = [wheel EXCEPT ![Call(t).wheel].enabled = SavesPower(Call(t).speed)]
            /\ todo' = todo
        BY <3>2, CallSteps, Zenon
      <4>2. wheel'[Call(t).wheel].enabled = SavesPower(Call(t).speed)
        BY <1>0, <2>1, <4>1, Zenon
      <4>3. at'[t] = IF SavesPower(Call(t).speed) THEN "notification" ELSE "period"
        BY <1>0, <4>1
      <4>4. Idle(t)' = Idle(t) /\ todo'[t] = todo[t]
        BY <4>1, Zenon DEF Idle
      <4>5. CASE SavesPower(Call(t).speed)
        BY <2>1, <4>4, <4>5, Zenon
      <4>6. CASE ~SavesPower(Call(t).speed)
        <5>1. at'[t] # "notification"
          BY <4>3, <4>6
        <5> QED
          BY <4>2, <4>4, <4>6, <5>1, Zenon
      <4> QED
        BY <4>5, <4>6
    <3>3. CASE enable_notification(t)
      <4>1. todo' = todo /\ at[t] = "notification"
        BY <3>3, CallSteps
      <4> QED
        BY <2>1, <4>1, Zenon DEF PulseInv, Idle
    <3>4. CASE change_period(t)
      <4>1. at'[t] = "direction"
        BY <1>0, <3>4, CallSteps
      <4> QED
        BY <4>1
    <3> QED
      BY <1>2, <3>1, <3>2, <3>3, <3>4
  <2> QED
    BY <2>2, <2>3, Zenon DEF PulseInv, Idle, Call
<1>3. CASE UNCHANGED motorsVars
  BY <1>3, Zenon DEF motorsVars, history, PulseInv, Idle, Call
<1> QED
  BY <1>1, <1>2, <1>3, MotorsSteps

(* Of small numbers.                                                       *)
LEMMA UpToTwo ==
  ASSUME NEW n \in Nat, n <= 2
  PROVE  /\ n \in {0, 1, 2}
         /\ n = 2 => 1 \in 1 .. n /\ 1 + 2 - n = 1
         /\ n = 1 => 1 \in 1 .. n /\ 1 + 2 - n = 2
OBVIOUS

(* In a burst of two calls each asks for the final speed of its wheel.     *)
LEMMA FinalOfTwo ==
  ASSUME NEW b, LowBurst(b)
  PROVE  Final(b, b[1].wheel) = b[1].speed /\ Final(b, b[2].wheel) = b[2].speed
<1>1. /\ b \in Seq(Calls) /\ Len(b) = 2 /\ b # <<>> /\ b[1].wheel # b[2].wheel
      /\ Ends(b, b)
  <2>1. b \in Seq(Calls) /\ Shaped("low", b)
    BY DEF LowBurst, Shaped
  <2> QED
    BY <2>1, ShapedBursts DEF LowBurst
<1> DEFINE c == Tail(b)
<1>2. /\ Ends(c, b) /\ Head(b) = b[1] /\ Len(c) = Len(b) - 1
      /\ \A i \in 1 .. Len(c) : c[i] = b[i + 1]
  BY <1>1, EndsTail, Zenon
<1>3. 2 - 1 = 1 /\ 1 + 1 = 2 /\ 1 \in 1 .. 1 /\ \A i \in 1 .. 1 : i = 1
  OBVIOUS
<1> HIDE DEF c
<1>4. c \in Seq(Calls) /\ Len(c) = 1 /\ c[1] = b[2]
  BY <1>1, <1>2, <1>3, Zenon DEF Ends
<1>5. c # <<>> /\ Head(c) = b[2] /\ Len(Tail(c)) = 0
  BY <1>4
<1>6. Through(c, b[1].wheel)
  BY <1>1, <1>3, <1>4, Zenon DEF Through
<1>7. Through(Tail(c), b[2].wheel)
  BY <1>5 DEF Through
<1>8. Final(b, b[1].wheel) = b[1].speed
  <2> DEFINE w == b[1].wheel
  <2>1. Ends(b, b) /\ b \in Seq(Calls) /\ b # <<>> /\ Head(b).wheel = w /\ Through(Tail(b), w)
    BY <1>1, <1>2, <1>6, Zenon DEF c
  <2> HIDE DEF w
  <2>2. Final(b, w) = Head(b).speed
    BY <2>1, LastCall, Zenon
  <2> QED
    BY <1>2, <2>2, Zenon DEF w
<1>9. Final(b, b[2].wheel) = b[2].speed
  <2> DEFINE w == b[2].wheel
  <2>1. Ends(c, b) /\ b \in Seq(Calls) /\ c # <<>> /\ Head(c).wheel = w /\ Through(Tail(c), w)
    BY <1>1, <1>2, <1>5, <1>7, Zenon
  <2> HIDE DEF w
  <2>2. Final(b, w) = Head(c).speed
    BY <2>1, LastCall, Zenon
  <2> QED
    BY <1>5, <2>2, Zenon DEF w
<1> QED
  BY <1>8, <1>9

(* Which of its calls a cut thread is in. *)
LEMMA CutCall ==
  ASSUME BurstsInv, WhoInv, cut
  PROVE  /\ First \in WheelName /\ Second \in WheelName /\ First # Second
         /\ Len(todo["low"]) \in {0, 1, 2}
         /\ Idle("low") <=> Len(todo["low"]) = 0
         /\ Len(todo["low"]) = 2 => Call("low") = asked["low"][1]
         /\ Len(todo["low"]) = 1 => Call("low") = asked["low"][2]
         /\ Final(asked["low"], First) = asked["low"][1].speed
         /\ Final(asked["low"], Second) = asked["low"][2].speed
<1> DEFINE b == asked["low"]
           r == todo["low"]
<1>1. LowBurst(b) /\ Ends(r, b) /\ r \in Seq(Calls) /\ b \in Seq(Calls)
  BY Zenon DEF BurstsInv, WhoInv, Caller
<1> HIDE DEF b, r
<1>2. /\ Len(b) = 2 /\ b[1].wheel # b[2].wheel /\ b[1] \in Calls /\ b[2] \in Calls
  BY <1>1, ElementOfSeq DEF LowBurst
<1>3. b[1].wheel \in WheelName /\ b[2].wheel \in WheelName
  BY <1>2 DEF Calls
<1>4. Len(r) \in {0, 1, 2} /\ (r = <<>> <=> Len(r) = 0) /\ (r # <<>> => Head(r) = r[1])
  <2>1. Len(r) \in Nat /\ Len(r) <= 2
    BY <1>1, <1>2, LenProperties, Zenon DEF Ends
  <2>2. (r = <<>> <=> Len(r) = 0) /\ (r # <<>> => Head(r) = r[1])
    BY <1>1
  <2> QED
    BY <2>1, <2>2, UpToTwo, Zenon
<1>5. \A i \in 1 .. Len(r) : r[i] = b[i + 2 - Len(r)]
  BY <1>1, <1>2, Zenon DEF Ends
<1>6. (Len(r) = 2 => r[1] = b[1]) /\ (Len(r) = 1 => r[1] = b[2])
  <2>1. Len(r) \in Nat /\ Len(r) <= 2
    BY <1>1, <1>2, LenProperties, Zenon DEF Ends
  <2>2. ASSUME Len(r) \in {1, 2} PROVE r[1] = b[1 + 2 - Len(r)]
    BY <1>5, <2>1, <2>2, UpToTwo
  <2>3. /\ Len(r) = 2 => 1 + 2 - Len(r) = 1
        /\ Len(r) = 1 => 1 + 2 - Len(r) = 2
    BY <2>1, UpToTwo, Zenon
  <2> QED
    BY <2>2, <2>3
<1>7. Final(b, b[1].wheel) = b[1].speed /\ Final(b, b[2].wheel) = b[2].speed
  BY <1>1, FinalOfTwo
<1>8. /\ First = b[1].wheel /\ Second = b[2].wheel /\ Call("low") = Head(r)
      /\ (Idle("low") <=> r = <<>>)
  BY Zenon DEF First, Second, Call, Idle, b, r
<1>9. /\ Len(r) = 2 => Call("low") = b[1]
      /\ Len(r) = 1 => Call("low") = b[2]
  BY <1>4, <1>6, <1>8
<1> QED
  BY <1>2, <1>3, <1>4, <1>7, <1>8, <1>9 DEF b, r

(* After the last call of avoid_obstacles the wheels go as it wants, and   *)
(* the thread that was cut takes over one direction after the other.       *)
LEMMA MixStep ==
  ASSUME MotorsTypeOK, BurstsInv, WhoInv, ProgressInv, MixInv, ProgressInv', BurstsInv',
         WhoInv', [MotorsNext]_motorsVars
  PROVE  MixInv'
<1>0. /\ at \in [Caller -> {"direction", "channel", "notification", "period"}]
      /\ wheel \in [WheelName -> [direction : {"HALT", "FORWARD", "BACKWARD"},
                                  period : Period, enabled : BOOLEAN]]
      /\ todo \in [Caller -> Seq(Calls)]
  BY DEF MotorsTypeOK, BurstsInv
<1>1. ASSUME NEW t \in Caller, NEW b \in Seq(Calls), Begin(t, b), Shaped(t, b)
      PROVE  MixInv'
  <2>1. /\ todo' = [todo EXCEPT ![t] = b] /\ cut' = (t = "avoid" /\ ~Idle("low"))
        /\ b # <<>>
    BY <1>1, ShapedBursts DEF Begin
  <2>2. t = "avoid" => ~Idle("avoid")'
    BY <1>0, <2>1 DEF Idle
  <2> QED
    BY <2>1, <2>2, Zenon DEF MixInv
<1>2. ASSUME set_direction("avoid") \/ set_channel("avoid") \/ enable_notification("avoid")
             \/ change_period("avoid")
      PROVE  MixInv'
  <2> SUFFICES ASSUME cut', Idle("avoid")'
               PROVE  GoesAs(First, "avoid")' /\ GoesAs(Second, "avoid")'
    BY Zenon DEF MixInv
  <2>1. "avoid" \in Caller
    BY DEF Caller
  <2>2. ~Idle("avoid") /\ UNCHANGED <<asked, latest, cut>>
    BY <1>2, <2>1, CallSteps, Zenon
  <2>3. latest = "avoid" /\ latest # "nobody"
    BY <2>2 DEF WhoInv
  <2>4. Progress("avoid")
    BY <2>2, <2>3, Zenon DEF ProgressInv
  <2>5. Progress("avoid")'
    BY <1>2, <2>1, <2>4, ProgressOfCall
  <2>6. Len(todo'["avoid"]) = 0
    BY DEF Idle
  <2>7. \A w \in WheelName : Through(todo'["avoid"], w)
    BY <2>6 DEF Through
  <2>8. First \in WheelName /\ Second \in WheelName /\ First' = First /\ Second' = Second
    BY <2>2, CutCall, Zenon DEF First, Second
  <2> QED
    BY <2>5, <2>7, <2>8, Zenon DEF Progress, SetTo, GoesAs
<1>3. ASSUME set_direction("low") \/ set_channel("low") \/ enable_notification("low")
             \/ change_period("low")
      PROVE  MixInv'
  <2> SUFFICES ASSUME cut', Idle("avoid")' PROVE MixInv'
    BY Zenon DEF MixInv
  <2>1. "low" \in Caller
    BY DEF Caller
  <2>2. /\ ~Idle("low") /\ MayRun("low") /\ UNCHANGED <<asked, latest, cut>>
    BY <1>3, <2>1, CallSteps, Zenon
  <2>3. cut /\ Idle("avoid") /\ First' = First /\ Second' = Second
    BY <2>2, Zenon DEF MayRun, First, Second
  <2>4. /\ First \in WheelName /\ Second \in WheelName /\ First # Second
        /\ Len(todo["low"]) \in {1, 2}
        /\ Len(todo["low"]) = 2 => Call("low") = asked["low"][1]
        /\ Len(todo["low"]) = 1 => Call("low") = asked["low"][2]
        /\ Final(asked["low"], First) = asked["low"][1].speed
        /\ Final(asked["low"], Second) = asked["low"][2].speed
        /\ Len(todo["low"]) \in Nat
    BY <2>2, <2>3, CutCall
  <2>5. \A w \in {First, Second}, t \in Caller :
          wheel'[w].direction = wheel[w].direction => GoesAs(w, t)' = GoesAs(w, t)
    BY <2>2, Zenon DEF GoesAs
  <2>6. CASE set_direction("low")
    <3>1. /\ wheel' = [wheel EXCEPT ![Call("low").wheel].direction = Direction(Call("low").speed)]
          /\ at["low"] = "direction" /\ at' = [at EXCEPT !["low"] = "channel"] /\ todo' = todo
      BY <2>1, <2>6, CallSteps, Zenon
    <3>2. at'["low"] = "channel"
      BY <1>0, <2>1, <3>1
    <3>3. CASE Len(todo["low"]) = 2
      <4>1. Call("low").wheel = First /\ Direction(Call("low").speed) = Direction(Final(asked["low"], First))
        BY <2>4, <3>3, Zenon DEF First
      <4>2. GoesAs(First, "low")' /\ wheel'[Second] = wheel[Second]
        BY <1>0, <2>2, <2>3, <2>4, <3>1, <4>1 DEF GoesAs
      <4>3. GoesAs(Second, "avoid")
        BY <2>3, <3>3, Zenon DEF MixInv
      <4>4. GoesAs(Second, "avoid")'
        BY <2>2, <2>3, <4>2, <4>3, Zenon DEF GoesAs
      <4>5. Len(todo'["low"]) = 2 /\ ~Before(2)'
        BY <3>1, <3>2, <3>3 DEF Before
      <4> QED
        BY <4>2, <4>4, <4>5, Zenon DEF MixInv
    <3>4. CASE Len(todo["low"]) = 1
      <4>1. Call("low").wheel = Second /\ Direction(Call("low").speed) = Direction(Final(asked["low"], Second))
        BY <2>4, <3>4, Zenon DEF Second
      <4>2. GoesAs(Second, "low")' /\ wheel'[First] = wheel[First]
        BY <1>0, <2>2, <2>3, <2>4, <3>1, <4>1 DEF GoesAs
      <4>3. GoesAs(First, "avoid") \/ GoesAs(First, "low")
        BY <2>3, <3>1, <3>4, Zenon DEF MixInv, Before
      <4>4. GoesAs(First, "avoid")' \/ GoesAs(First, "low")'
        BY <2>2, <2>3, <4>2, <4>3, Zenon DEF GoesAs
      <4>5. Len(todo'["low"]) = 1 /\ ~Before(1)' /\ ~Before(2)' /\ Len(todo'["low"]) # 2
        BY <3>1, <3>2, <3>4 DEF Before
      <4> QED
        BY <4>2, <4>4, <4>5, Zenon DEF MixInv
    <3> QED
      BY <2>4, <3>3, <3>4
  <2>7. CASE set_channel("low") \/ enable_notification("low") \/ change_period("low")
    <3>1. \A w \in WheelName : wheel'[w].direction = wheel[w].direction
      <4>1. \/ wheel' = wheel
            \/ wheel' = [wheel EXCEPT ![Call("low").wheel].enabled = SavesPower(Call("low").speed)]
            \/ wheel' = [wheel EXCEPT ![Call("low").wheel].period = Interval(Call("low").speed)]
        BY <2>1, <2>7, CallSteps, Zenon
      <4> QED
        BY <1>0, <4>1
    <3>2. /\ GoesAs(First, "low")' = GoesAs(First, "low")
          /\ GoesAs(Second, "low")' = GoesAs(Second, "low")
          /\ GoesAs(First, "avoid")' = GoesAs(First, "avoid")
          /\ GoesAs(Second, "avoid")' = GoesAs(Second, "avoid")
      BY <2>2, <2>3, <2>4, <3>1, Zenon DEF GoesAs
    <3>3. at["low"] # "direction"
      BY <2>1, <2>7, CallSteps
    <3>4. CASE set_channel("low") \/ enable_notification("low")
      <4>1. todo' = todo /\ at'["low"] # "direction"
        <5>1. /\ todo' = todo
              /\ \/ at' = at
                 \/ at' = [at EXCEPT !["low"] = "period"]
                 \/ at' = [at EXCEPT !["low"] = "notification"]
          BY <2>1, <3>4, CallSteps, Zenon
        <5> QED
          BY <1>0, <2>1, <3>3, <5>1
      <4>2. Before(1)' = Before(1) /\ Before(2)' = Before(2)
        BY <3>3, <4>1 DEF Before
      <4> QED
        BY <2>3, <3>2, <4>1, <4>2, Zenon DEF MixInv
    <3>5. CASE change_period("low")
      <4>1. Len(todo'["low"]) = Len(todo["low"]) - 1
        <5>1. todo'["low"] = Tail(todo["low"])
          BY <1>0, <2>1, <3>5, CallSteps
        <5> QED
          BY <2>1, <2>2, <5>1, CallTyped
      <4>2. CASE Len(todo["low"]) = 2
        <5>1. GoesAs(Second, "avoid") /\ (GoesAs(First, "avoid") \/ GoesAs(First, "low"))
          BY <2>3, <4>2, Zenon DEF MixInv
        <5>2. Len(todo'["low"]) = 1 /\ ~Before(2)' /\ Before(1)'
          <6>1. at'["low"] = "direction"
            BY <1>0, <2>1, <3>5, CallSteps
          <6> QED
            BY <4>1, <4>2, <6>1 DEF Before
        <5> QED
          BY <3>2, <5>1, <5>2, Zenon DEF MixInv
      <4>3. CASE Len(todo["low"]) = 1
        <5>1. ~(Len(todo["low"]) = 2 \/ Before(1))
          BY <3>3, <4>3 DEF Before
        <5>2. Len(todo'["low"]) # 2 /\ ~Before(2)' /\ ~Before(1)'
          BY <4>1, <4>3 DEF Before
        <5> QED
          BY <2>3, <3>2, <5>1, <5>2, Zenon DEF MixInv
      <4> QED
        BY <2>4, <4>2, <4>3
    <3> QED
      BY <2>7, <3>4, <3>5
  <2> QED
    BY <1>3, <2>6, <2>7
<1>4. CASE UNCHANGED motorsVars
  BY <1>4, Zenon DEF motorsVars, history, MixInv, Idle, GoesAs, First, Second, Before
<1> QED
  BY <1>1, <1>2, <1>3, <1>4, MotorsSteps DEF Caller

(* Every step keeps the types.                                             *)
LEMMA MotorsTypeStep ==
  ASSUME MotorsTypeOK, BurstsInv, BurstsInv', [MotorsNext]_motorsVars
  PROVE  MotorsTypeOK'
<1> DEFINE State == [direction : {"HALT", "FORWARD", "BACKWARD"},
                     period : Period, enabled : BOOLEAN]
<1>0. /\ wheel \in [WheelName -> State]
      /\ at \in [Caller -> {"direction", "channel", "notification", "period"}]
  BY DEF MotorsTypeOK
<1>1. wheel' \in [WheelName -> State]
  <2>1. ASSUME NEW t \in Caller, ~Idle(t)
        PROVE  /\ Call(t).wheel \in WheelName
               /\ Direction(Call(t).speed) \in {"HALT", "FORWARD", "BACKWARD"}
               /\ SavesPower(Call(t).speed) \in BOOLEAN
               /\ Interval(Call(t).speed) \in Period
    BY <2>1, CallTyped, SetTyped
  <2>2. ASSUME NEW t \in Caller, set_direction(t) PROVE wheel' \in [WheelName -> State]
    <3>1. wheel' = [wheel EXCEPT ![Call(t).wheel].direction = Direction(Call(t).speed)]
          /\ ~Idle(t)
      BY <2>2, CallSteps, Zenon
    <3>2. Direction(Call(t).speed) \in {"HALT", "FORWARD", "BACKWARD"}
      BY <2>1, <3>1
    <3> QED
      BY <1>0, <3>1, <3>2
  <2>3. ASSUME NEW t \in Caller, set_channel(t) PROVE wheel' \in [WheelName -> State]
    <3>1. wheel' = [wheel EXCEPT ![Call(t).wheel].enabled = SavesPower(Call(t).speed)]
          /\ ~Idle(t)
      BY <2>3, CallSteps, Zenon
    <3>2. SavesPower(Call(t).speed) \in BOOLEAN
      BY <2>1, <3>1
    <3> DEFINE e == SavesPower(Call(t).speed)
    <3> HIDE DEF e
    <3>3. wheel' = [wheel EXCEPT ![Call(t).wheel].enabled = e] /\ e \in BOOLEAN
      BY <3>1, <3>2, Zenon DEF e
    <3> QED
      BY <1>0, <3>3
  <2>4. ASSUME NEW t \in Caller, change_period(t) PROVE wheel' \in [WheelName -> State]
    <3>1. wheel' = [wheel EXCEPT ![Call(t).wheel].period = Interval(Call(t).speed)]
          /\ ~Idle(t)
      BY <2>4, CallSteps, Zenon
    <3>2. Interval(Call(t).speed) \in Period
      BY <2>1, <3>1
    <3> QED
      BY <1>0, <3>1, <3>2
  <2>5. ASSUME NEW t \in Caller, enable_notification(t) PROVE wheel' = wheel
    BY <2>5, CallSteps
  <2>6. ASSUME NEW t, NEW b, Begin(t, b) PROVE wheel' = wheel
    BY <2>6 DEF Begin
  <2> QED
    BY <1>0, <2>2, <2>3, <2>4, <2>5, <2>6, MotorsSteps DEF motorsVars
<1>2. at' \in [Caller -> {"direction", "channel", "notification", "period"}]
  <2>1. ASSUME NEW t \in Caller,
               set_direction(t) \/ set_channel(t) \/ enable_notification(t) \/ change_period(t)
        PROVE  \/ at' = at
               \/ \E place \in {"direction", "channel", "notification", "period"} :
                    at' = [at EXCEPT ![t] = place]
    BY <2>1, CallSteps
  <2>2. ASSUME NEW t, NEW b, Begin(t, b) PROVE at' = at
    BY <2>2 DEF Begin
  <2> QED
    BY <1>0, <2>1, <2>2, MotorsSteps DEF motorsVars
<1>3. manoeuvre' \in {"watch", "turn", "ahead"}
  BY DEF MotorsTypeOK, MotorsNext, low_bursts, avoid_bursts, Begin, set_direction, set_channel,
         enable_notification, change_period, motorsVars, history
<1>4. latest' \in Caller \cup {"nobody"}
  <2>1. ASSUME NEW t \in Caller, NEW b, Begin(t, b) PROVE latest' = t
    BY <2>1 DEF Begin
  <2>2. ASSUME NEW t \in Caller,
               set_direction(t) \/ set_channel(t) \/ enable_notification(t) \/ change_period(t)
        PROVE  latest' = latest
    BY <2>2, CallSteps
  <2> QED
    BY <2>1, <2>2, MotorsSteps DEF motorsVars, history, MotorsTypeOK
<1>5. cut' \in BOOLEAN
  <2>1. ASSUME NEW t \in Caller, NEW b, Begin(t, b) PROVE cut' \in BOOLEAN
    BY <2>1, Zenon DEF Begin
  <2>2. ASSUME NEW t \in Caller,
               set_direction(t) \/ set_channel(t) \/ enable_notification(t) \/ change_period(t)
        PROVE  cut' = cut
    BY <2>2, CallSteps, Zenon
  <2> QED
    BY <2>1, <2>2, MotorsSteps, Zenon DEF motorsVars, history, MotorsTypeOK
<1>6. system_halted' \in BOOLEAN
  <2>1. ASSUME NEW t \in Caller,
               set_direction(t) \/ set_channel(t) \/ enable_notification(t) \/ change_period(t)
        PROVE  system_halted' \in BOOLEAN
    BY <2>1, Zenon DEF set_direction, set_channel, enable_notification, change_period, MotorsTypeOK
  <2>2. ASSUME NEW t, NEW b, Begin(t, b) PROVE system_halted' = system_halted
    BY <2>2, Zenon DEF Begin
  <2> QED
    BY <2>1, <2>2, MotorsSteps, Zenon DEF motorsVars, MotorsTypeOK
<1>7. \A t \in Caller : Len(todo'[t]) <= Len(asked'[t]) /\ Len(asked'[t]) \in {0, 2, 4}
  <2>1. \A t \in Caller : Len(todo'[t]) <= Len(asked'[t])
    BY Zenon DEF BurstsInv, Ends
  <2>2. \A t \in Caller : Len(asked'[t]) \in {0, 2, 4}
    BY DEF BurstsInv, LowBurst, AvoidBurst, Caller
  <2> QED
    BY <2>1, <2>2
<1> QED
  BY <1>1, <1>2, <1>3, <1>4, <1>5, <1>6, <1>7, Zenon DEF MotorsTypeOK

(* Before the first call.                                                  *)
LEMMA MotorsStart == MotorsInit => MotorsInv
<1> SUFFICES ASSUME MotorsInit PROVE MotorsInv
  OBVIOUS
<1>1. /\ todo = [t \in Caller |-> <<>>] /\ asked = [t \in Caller |-> <<>>]
      /\ at = [t \in Caller |-> "direction"] /\ latest = "nobody" /\ cut = FALSE
      /\ \A t \in Caller : Idle(t) /\ asked[t] = <<>> /\ todo[t] = <<>> /\ at[t] = "direction"
  BY DEF MotorsInit, Idle
<1>2. Len(<<>>) = 0 /\ <<>> \in Seq(Calls) /\ "low" \in Caller /\ "avoid" \in Caller
  BY DEF Caller
<1>3. MotorsTypeOK
  <2>1. wheel \in [WheelName -> [direction : {"HALT", "FORWARD", "BACKWARD"},
                                 period : Period, enabled : BOOLEAN]]
    <3>1. 65535 \in Period
      BY DEF Period
    <3>2. "HALT" \in {"HALT", "FORWARD", "BACKWARD"} /\ FALSE \in BOOLEAN
      OBVIOUS
    <3> QED
      BY <3>1, <3>2 DEF MotorsInit
  <2>2. \A t \in Caller : Len(todo[t]) <= Len(asked[t]) /\ Len(asked[t]) \in {0, 2, 4}
    BY <1>1, <1>2
  <2>3. /\ at \in [Caller -> {"direction", "channel", "notification", "period"}]
        /\ manoeuvre \in {"watch", "turn", "ahead"}
        /\ latest \in Caller \cup {"nobody"}
    BY DEF MotorsInit
  <2>4. system_halted \in BOOLEAN /\ cut \in BOOLEAN
    <3>1. system_halted = FALSE /\ cut = FALSE
      BY SMT DEF MotorsInit
    <3> QED
      BY <3>1, Zenon
  <2> QED
    BY <2>1, <2>2, <2>3, <2>4, Zenon DEF MotorsTypeOK
<1>4. BurstsInv
  <2>1. Ends(<<>>, <<>>)
    BY <1>2 DEF Ends
  <2> QED
    BY <1>1, <1>2, <2>1 DEF BurstsInv
<1>5. WhoInv /\ ProgressInv /\ MixInv
  BY <1>1, <1>2, Zenon DEF WhoInv, ProgressInv, MixInv
<1>6. PulseInv
  BY <1>1 DEF PulseInv
<1> QED
  BY <1>3, <1>4, <1>5, <1>6 DEF MotorsInv

(* Every step keeps the invariant.                                         *)
LEMMA MotorsStep == MotorsInv /\ [MotorsNext]_motorsVars => MotorsInv'
BY BurstsStep, WhoStep, ProgressStep, MixStep, PulseStep, MotorsTypeStep DEF MotorsInv

(* The calls of the two threads that are in motor_set_speed interleave as  *)
(* described above, for ever.                                              *)
THEOREM MotorsKept == MotorsSpec => []MotorsInv
  BY MotorsStart, MotorsStep, PTL DEF MotorsSpec

(* Once no call is under way, and if the last burst cut none, each wheel   *)
(* obeys the thread that asked last, at every speed: nothing that was set, *)
(* enabled or cut before leaves a trace.                                   *)
THEOREM LastCommandCounts == MotorsSpec => []WheelsObey
<1>1. MotorsInv => WheelsObey
  <2> SUFFICES ASSUME MotorsInv, AllIdle, ~cut, latest # "nobody", NEW w \in WheelName
               PROVE  Obeys(w, Final(asked[latest], w))
    BY DEF WheelsObey
  <2>1. latest \in Caller /\ Progress(latest)
    BY DEF MotorsInv, ProgressInv, MotorsTypeOK
  <2>2. todo[latest] = <<>>
    BY <2>1 DEF AllIdle, Idle
  <2>3. Through(todo[latest], w)
    BY <2>2 DEF Through
  <2>4. /\ Final(asked[latest], w) \in Int
        /\ SetTo(wheel[w], Final(asked[latest], w))
    BY <2>1, <2>3, Zenon DEF Progress
  <2> QED
    BY <2>4, Obeying
<1> QED
  BY <1>1, MotorsKept, PTL

(* When avoid_obstacles has cut a burst, the wheels go the way one of the  *)
(* two threads wants, or the one mixed way of OnlyOneMix, never the other. *)
THEOREM OneMixOnly == MotorsSpec => []OnlyOneMix
<1>1. MotorsInv => OnlyOneMix
  <2> SUFFICES ASSUME MotorsInv, AllIdle, cut PROVE OnlyOneMix
    BY Zenon DEF OnlyOneMix
  <2>1. Idle("low") /\ Idle("avoid")
    BY DEF AllIdle, Caller
  <2>2. /\ First \in WheelName /\ Second \in WheelName /\ First # Second
        /\ Len(todo["low"]) = 0
    BY <2>1, CutCall, Zenon DEF MotorsInv
  <2>3. ~(Len(todo["low"]) = 2 \/ Before(1))
    BY <2>2 DEF Before
  <2>4. \/ GoesAs(First, "low") /\ GoesAs(Second, "low")
        \/ GoesAs(First, "avoid") /\ GoesAs(Second, "avoid")
        \/ GoesAs(First, "avoid") /\ GoesAs(Second, "low")
    BY <2>1, <2>3, Zenon DEF MotorsInv, MixInv
  <2>5. Other(First) = Second /\ \A w \in WheelName : w = First \/ w = Second
    BY <2>2 DEF Other, WheelName
  <2> QED
    BY <2>4, <2>5, Zenon DEF OnlyOneMix, First, GoesAs
<1> QED
  BY <1>1, MotorsKept, PTL

(* The PWM driver is never given a period shorter than the pulse of an     *)
(* enabled channel (pwm.c:131), whoever cuts in between.                   *)
THEOREM PulsesFit == MotorsSpec => PulseFits
<1>1. MotorsInv /\ [MotorsNext]_motorsVars =>
        [\A w \in WheelName : wheel'[w].period # wheel[w].period /\ wheel'[w].enabled
           => PULSE < wheel'[w].period]_motorsVars
  <2> SUFFICES ASSUME MotorsInv, [MotorsNext]_motorsVars, NEW w \in WheelName,
                      wheel'[w].period # wheel[w].period, wheel'[w].enabled
               PROVE  PULSE < wheel'[w].period
    BY Zenon
  <2>0. /\ wheel \in [WheelName -> [direction : {"HALT", "FORWARD", "BACKWARD"},
                                    period : Period, enabled : BOOLEAN]]
        /\ MotorsTypeOK /\ BurstsInv /\ PulseInv
    BY DEF MotorsInv, MotorsTypeOK
  <2>1. ASSUME NEW t \in Caller, change_period(t) PROVE PULSE < wheel'[w].period
    <3>1. /\ wheel' = [wheel EXCEPT ![Call(t).wheel].period = Interval(Call(t).speed)]
          /\ at[t] = "period" /\ ~Idle(t)
          /\ Call(t).wheel \in WheelName /\ Call(t).speed \in Int
      BY <2>0, <2>1, CallSteps, CallTyped, Zenon
    <3>2. /\ w = Call(t).wheel /\ wheel'[w].period = Interval(Call(t).speed)
          /\ wheel[w].enabled
      BY <2>0, <3>1
    <3>3. SavesPower(Call(t).speed)
      BY <2>0, <3>1, <3>2, Zenon DEF PulseInv
    <3> QED
      BY <3>1, <3>2, <3>3, PulseIsShort, Zenon
  <2>2. ASSUME NEW t \in Caller, set_direction(t) \/ set_channel(t) \/ enable_notification(t)
        PROVE  wheel'[w].period = wheel[w].period
    <3>1. \/ wheel' = wheel
          \/ wheel' = [wheel EXCEPT ![Call(t).wheel].direction = Direction(Call(t).speed)]
          \/ wheel' = [wheel EXCEPT ![Call(t).wheel].enabled = SavesPower(Call(t).speed)]
      BY <2>0, <2>2, CallSteps, Zenon
    <3> QED
      BY <2>0, <3>1
  <2>3. ASSUME NEW t, NEW b, Begin(t, b) PROVE wheel' = wheel
    BY <2>3 DEF Begin
  <2> QED
    BY <2>1, <2>2, <2>3, MotorsSteps, Zenon DEF motorsVars
<1> QED
  BY <1>1, MotorsKept, PTL DEF MotorsSpec, PulseFits

-----------------------------------------------------------------------------
(* Module Coils.                                                           *)

(* Two numbers a multiple of 8 apart have the same remainder.              *)
LEMMA SameRemainder ==
  ASSUME NEW a \in Int, NEW b \in Int, a % 8 = b % 8
  PROVE  /\ (a + 1) % 8 = (b + 1) % 8
         /\ (a - 1) % 8 = (b - 1) % 8
BY SMT

(* A remainder is an index of the table.                                   *)
LEMMA RemainderTyped ==
  ASSUME NEW a \in Int
  PROVE  a % 8 \in 0 .. 7
BY SMT

(* One step back from the first index is the last.                         *)
LEMMA BeforeZero ==
  ASSUME NEW a \in Int, a % 8 = 0
  PROVE  (a - 1) % 8 = 7
BY SMT

(* The numbers below 8 are their own remainders.                           *)
LEMMA OwnRemainder ==
  ASSUME NEW i \in 0 .. 7
  PROVE  i % 8 = i
BY SMT

(* The table of steps only has inputs that exist.                          *)
LEMMA TableTyped ==
  ASSUME NEW i \in 0 .. 7
  PROVE  step_table[i] \subseteq Inputs
BY DEF step_table, Inputs

CoilsInv == CoilsTypeOK /\ CountFollowsCoils

(* The masked index is one of the table.                                   *)
LEMMA NextIndexTyped ==
  ASSUME CoilsTypeOK
  PROVE  next_index \in 0 .. 7
<1>1. Way \in {1, -1} /\ Mounting \in {1, -1}
  BY DEF Way, Mounting
<1>2. Way * Mounting \in Int
  BY <1>1
<1>3. step_index + Way * Mounting \in Int
  BY <1>2 DEF CoilsTypeOK
<1> QED
  BY <1>3, RemainderTyped DEF next_index

(* The types, before the timer runs.                                       *)
LEMMA CoilsTypesStart == CoilsInit => CoilsTypeOK
<1> SUFFICES ASSUME CoilsInit PROVE CoilsTypeOK
  OBVIOUS
<1>1. power_save \in BOOLEAN
  BY Zenon DEF CoilsInit
<1>2. step_index \in 0 .. 7 /\ count \in Int /\ zero \in Int
  BY DEF CoilsInit
<1>3. pins \subseteq Inputs /\ field \subseteq Inputs
  BY Zenon DEF CoilsInit, step_halt
<1> QED
  BY <1>1, <1>2, <1>3, Zenon DEF CoilsInit, CoilsTypeOK

(* Every step keeps the types.                                             *)
LEMMA CoilsTypesStep == CoilsTypeOK /\ [CoilsNext]_coilsVars => CoilsTypeOK'
<1> SUFFICES ASSUME CoilsTypeOK, [CoilsNext]_coilsVars PROVE CoilsTypeOK'
  OBVIOUS
<1>1. CASE step /\ UNCHANGED <<side, direction, power_save, zero>>
  <2>1. next_index \in 0 .. 7
    BY NextIndexTyped
  <2>2. step_table[next_index] \subseteq Inputs
    BY <2>1, TableTyped
  <2>3. pins' \subseteq Inputs /\ field' \subseteq Inputs
    BY <1>1, <2>2 DEF step, update, CoilsTypeOK
  <2> QED
    BY <1>1, <2>1, <2>3 DEF step, Way, CoilsTypeOK
<1>2. CASE halt /\ UNCHANGED <<side, direction, power_save, zero>>
  BY <1>2 DEF halt, update, step_halt, CoilsTypeOK
<1>3. CASE motor_pwm_ch1_cb
  BY <1>3 DEF motor_pwm_ch1_cb, update, step_halt, CoilsTypeOK
<1>4. CASE direction_changes
  BY <1>4 DEF direction_changes, CoilsTypeOK
<1>5. CASE power_save_changes
  BY <1>5 DEF power_save_changes, CoilsTypeOK
<1>6. ASSUME NEW counter_value \in CounterValue, motor_set_pos(counter_value)
      PROVE  CoilsTypeOK'
  <2>1. counter_value \in Int /\ Mounting \in {1, -1}
    BY CoilsAssumption DEF Mounting
  <2>2. count' \in Int /\ zero' \in Int
    BY <1>6, <2>1 DEF motor_set_pos, CoilsTypeOK
  <2> QED
    BY <1>6, <2>2 DEF motor_set_pos, CoilsTypeOK
<1>7. CASE UNCHANGED coilsVars
  BY <1>7 DEF coilsVars, CoilsTypeOK
<1> QED
  BY <1>1, <1>2, <1>3, <1>4, <1>5, <1>6, <1>7 DEF CoilsNext, motor_timer_callback

(* The type invariant of one motor: whatever the threads set, the index of *)
(* a step stays in the table and the inputs are those of the bridge.       *)
THEOREM CoilsTyped == CoilsSpec => []CoilsTypeOK
  BY CoilsTypesStart, CoilsTypesStep, PTL DEF CoilsSpec

(* The position that the code counts and the step of the coils never part, *)
(* over any number of steps, stops, power cuts and calls of set_pos.       *)
THEOREM CountAndCoilsAgree == CoilsSpec => []CountFollowsCoils
<1>1. CoilsInit => CountFollowsCoils
  BY DEF CoilsInit, CountFollowsCoils, Mounting
<1>2. CoilsInv /\ CoilsTypeOK' /\ [CoilsNext]_coilsVars => CountFollowsCoils'
  <2> SUFFICES ASSUME CoilsInv, CoilsTypeOK', [CoilsNext]_coilsVars PROVE CountFollowsCoils'
    OBVIOUS
  <2> USE DEF CoilsInv, CountFollowsCoils
  <2>1. CASE step /\ UNCHANGED <<side, direction, power_save, zero>>
    <3> DEFINE d == Mounting * (count - zero)
    <3>1. Way \in {1, -1} /\ Mounting \in {1, -1} /\ count \in Int /\ zero \in Int
      BY DEF Way, Mounting, CoilsTypeOK
    <3>2. d \in Int /\ step_index \in Int
      BY <3>1 DEF CoilsTypeOK
    <3>3. step_index % 8 = d % 8
      BY <3>2, OwnRemainder DEF CoilsTypeOK
    <3>4. (Mounting * (count - zero))' = d + Way * Mounting
      <4>1. count' = count + Way /\ zero' = zero /\ Mounting' = Mounting
        BY <2>1 DEF step, Mounting
      <4> QED
        BY <3>1, <4>1
    <3>5. Way * Mounting \in {1, -1}
      BY <3>1
    <3>6. (step_index + Way * Mounting) % 8 = (d + Way * Mounting) % 8
      <4> HIDE DEF d
      <4>1. CASE Way * Mounting = 1
        BY <3>2, <3>3, <4>1, SameRemainder
      <4>2. CASE Way * Mounting = -1
        <5>1. step_index + (-1) = step_index - 1 /\ d + (-1) = d - 1
          BY <3>2
        <5> QED
          BY <3>2, <3>3, <4>2, <5>1, SameRemainder
      <4> QED
        BY <3>5, <4>1, <4>2
    <3>7. step_index' = (step_index + Way * Mounting) % 8
      BY <2>1 DEF step, next_index
    <3> QED
      BY <3>4, <3>6, <3>7
  <2>2. CASE halt /\ UNCHANGED <<side, direction, power_save, zero>>
    BY <2>2 DEF halt, Mounting
  <2>3. CASE motor_pwm_ch1_cb
    BY <2>3 DEF motor_pwm_ch1_cb, Mounting
  <2>4. CASE direction_changes
    BY <2>4 DEF direction_changes, Mounting
  <2>5. CASE power_save_changes
    BY <2>5 DEF power_save_changes, Mounting
  <2>6. ASSUME NEW counter_value \in CounterValue, motor_set_pos(counter_value)
        PROVE  CountFollowsCoils'
    <3>1. counter_value \in Int /\ Mounting \in {1, -1} /\ step_index \in 0 .. 7
      BY CoilsAssumption DEF Mounting, CoilsTypeOK
    <3>2. Mounting' = Mounting /\ step_index' = step_index
      BY <2>6 DEF motor_set_pos, Mounting
    <3>3. Mounting * (count' - zero') = step_index
      BY <2>6, <3>1 DEF motor_set_pos
    <3> QED
      BY <3>1, <3>2, <3>3, OwnRemainder
  <2>7. CASE UNCHANGED coilsVars
    BY <2>7 DEF coilsVars, Mounting
  <2> QED
    BY <2>1, <2>2, <2>3, <2>4, <2>5, <2>6, <2>7 DEF CoilsNext, motor_timer_callback
<1> QED
  BY <1>1, <1>2, CoilsTyped, PTL DEF CoilsSpec, CoilsInv

(* The coils were last powered for the step that the index is at, and are  *)
(* still, unless they are off.                                             *)
FieldInv == field \in {{}, step_table[step_index]} /\ pins \in {{}, field}

(* The eight directions of the field, in their order.                      *)
LEMMA TableFields ==
  /\ FieldX(step_table[0]) = 1 /\ FieldY(step_table[0]) = 1
  /\ FieldX(step_table[1]) = 0 /\ FieldY(step_table[1]) = 1
  /\ FieldX(step_table[2]) = -1 /\ FieldY(step_table[2]) = 1
  /\ FieldX(step_table[3]) = -1 /\ FieldY(step_table[3]) = 0
  /\ FieldX(step_table[4]) = -1 /\ FieldY(step_table[4]) = -1
  /\ FieldX(step_table[5]) = 0 /\ FieldY(step_table[5]) = -1
  /\ FieldX(step_table[6]) = 1 /\ FieldY(step_table[6]) = -1
  /\ FieldX(step_table[7]) = 1 /\ FieldY(step_table[7]) = 0
<1>1. /\ step_table[0] = {"IN1", "IN3"} /\ step_table[1] = {"IN3"}
      /\ step_table[2] = {"IN2", "IN3"} /\ step_table[3] = {"IN2"}
      /\ step_table[4] = {"IN2", "IN4"} /\ step_table[5] = {"IN4"}
      /\ step_table[6] = {"IN1", "IN4"} /\ step_table[7] = {"IN1"}
  BY DEF step_table
<1> QED
  BY <1>1 DEF FieldX, FieldY, Along

(* Every entry of the table powers a coil.                                 *)
LEMMA TableEntries ==
  ASSUME NEW i \in 0 .. 7
  PROVE  step_table[i] # {}
<1>1. step_table[i] \in {{"IN1", "IN3"}, {"IN3"}, {"IN2", "IN3"}, {"IN2"},
                         {"IN2", "IN4"}, {"IN4"}, {"IN1", "IN4"}, {"IN1"}}
  BY DEF step_table
<1> QED
  BY <1>1

(* From an entry of the table to itself or to a neighbour the field turns  *)
(* by an eighth of a turn at most, and every entry makes one.              *)
LEMMA TableTurns ==
  ASSUME NEW i \in 0 .. 7, NEW j \in {i, (i + 1) % 8, (i - 1) % 8}
  PROVE  /\ Turned(step_table[i], step_table[j]) <= 1
         /\ Turned({}, step_table[j]) > 0
<1>1. FieldX({}) = 0 /\ FieldY({}) = 0
  BY DEF FieldX, FieldY, Along
<1>2. i \in {0, 1, 2, 3, 4, 5, 6, 7}
  OBVIOUS
<1>3. \/ i = 0 /\ j \in {0, 1, 7}
      \/ i = 1 /\ j \in {1, 2, 0}
      \/ i = 2 /\ j \in {2, 3, 1}
      \/ i = 3 /\ j \in {3, 4, 2}
      \/ i = 4 /\ j \in {4, 5, 3}
      \/ i = 5 /\ j \in {5, 6, 4}
      \/ i = 6 /\ j \in {6, 7, 5}
      \/ i = 7 /\ j \in {7, 0, 6}
  <2>1. (i + 1) % 8 = IF i = 7 THEN 0 ELSE i + 1
    BY SMT
  <2>2. CASE i = 0
    <3>1. i % 8 = 0
      BY <2>2, OwnRemainder
    <3>2. (i - 1) % 8 = 7
      BY <3>1, BeforeZero
    <3> QED
      BY <2>1, <2>2, <3>2
  <2>3. CASE i # 0
    <3>1. i - 1 \in 0 .. 7
      BY <2>3
    <3> DEFINE k == i - 1
    <3>2. k % 8 = k
      <4> k \in 0 .. 7
        BY <3>1
      <4> HIDE DEF k
      <4> QED
        BY OwnRemainder
    <3> QED
      BY <1>2, <2>1, <2>3, <3>2
  <2> QED
    BY <2>2, <2>3
<1> QED
  BY <1>1, <1>3, TableFields, SMT DEF Turned

(* The field stays the one of a step of the table.                         *)
LEMMA FieldStep ==
  ASSUME CoilsTypeOK, FieldInv, [CoilsNext]_coilsVars
  PROVE  FieldInv'
<1> USE DEF FieldInv
<1>1. CASE step /\ UNCHANGED <<side, direction, power_save, zero>>
  <2>1. /\ step_index' = next_index /\ pins' = step_table[next_index]
        /\ field' = IF step_table[next_index] = {} THEN field ELSE step_table[next_index]
    BY <1>1, Zenon DEF step, update
  <2>2. next_index \in 0 .. 7
    BY NextIndexTyped
  <2>3. step_table[next_index] # {}
    BY <2>2, TableEntries
  <2>4. step_table[step_index]' = step_table[next_index]
    BY <2>1 DEF step_table
  <2> QED
    BY <2>1, <2>3, <2>4
<1>2. CASE halt /\ UNCHANGED <<side, direction, power_save, zero>>
  BY <1>2, Zenon DEF halt, update, step_halt
<1>3. CASE motor_pwm_ch1_cb
  BY <1>3, Zenon DEF motor_pwm_ch1_cb, update, step_halt
<1>4. CASE direction_changes
  BY <1>4, Zenon DEF direction_changes
<1>5. CASE power_save_changes
  BY <1>5, Zenon DEF power_save_changes
<1>6. ASSUME NEW counter_value \in CounterValue, motor_set_pos(counter_value)
      PROVE  FieldInv'
  BY <1>6, Zenon DEF motor_set_pos
<1>7. CASE UNCHANGED coilsVars
  BY <1>7, Zenon DEF coilsVars
<1> QED
  BY <1>1, <1>2, <1>3, <1>4, <1>5, <1>6, <1>7, Zenon DEF CoilsNext, motor_timer_callback

(* The rotor can follow the coils: whatever the threads set and whenever   *)
(* the power is cut, the field never jumps by more than an eighth of a     *)
(* turn between two moments at which it is on.                             *)
THEOREM RotorCanFollow == CoilsSpec => RotorFollows
<1>1. CoilsInit => FieldInv
  BY Zenon DEF CoilsInit, FieldInv, step_halt
<1>2. CoilsTypeOK /\ FieldInv /\ [CoilsNext]_coilsVars =>
        [pins' # {} => /\ field # {} => Turned(field, pins') <= 1
                       /\ Turned({}, pins') > 0]_coilsVars
  <2> SUFFICES ASSUME CoilsTypeOK, FieldInv, [CoilsNext]_coilsVars, pins' # {}
               PROVE  /\ field # {} => Turned(field, pins') <= 1
                      /\ Turned({}, pins') > 0
    OBVIOUS
  <2>0. step_index \in 0 .. 7 /\ step_index \in {step_index}
    BY DEF CoilsTypeOK
  <2>1. CASE step /\ UNCHANGED <<side, direction, power_save, zero>>
    <3>1. next_index \in {(step_index + 1) % 8, (step_index - 1) % 8}
      <4>1. Way * Mounting \in {1, -1}
        BY DEF Way, Mounting
      <4>2. step_index + (-1) = step_index - 1
        BY <2>0
      <4> QED
        BY <4>1, <4>2 DEF next_index
    <3>2. pins' = step_table[next_index]
      BY <2>1 DEF step, update
    <3>3. field # {} => field = step_table[step_index]
      BY DEF FieldInv
    <3> QED
      BY <2>0, <3>1, <3>2, <3>3, TableTurns
  <2>2. CASE halt \/ motor_pwm_ch1_cb
    BY <2>2 DEF halt, motor_pwm_ch1_cb, update, step_halt
  <2>3. CASE pins' = pins
    <3>1. field = step_table[step_index] /\ pins' = field
      BY <2>3 DEF FieldInv
    <3> QED
      BY <2>0, <3>1, TableTurns
  <2> QED
    BY <2>1, <2>2, <2>3
    DEF CoilsNext, motor_timer_callback, direction_changes, power_save_changes, motor_set_pos,
        coilsVars
<1>3. CoilsTypeOK /\ FieldInv /\ [CoilsNext]_coilsVars => FieldInv'
  BY FieldStep
<1> QED
  BY <1>1, <1>2, <1>3, CoilsTyped, PTL DEF CoilsSpec, RotorFollows

=============================================================================
