------------------------------- MODULE Motors -------------------------------
(***************************************************************************)
(* motors.c from above: the speeds that the threads ask of the wheels.     *)
(* motor_set_speed is three or four steps, each atomic because it is one   *)
(* store or one locked call of the PWM driver; no lock is held from one to *)
(* the next, nor from one wheel to the other.  Of the threads of           *)
(* NORMALPRIO only one is inside such calls at a time (module Peers): it   *)
(* is "low" here.  avoid_obstacles, at NORMALPRIO+8, can cut in between    *)
(* any two of its steps, and then makes all its calls up to its next       *)
(* blocking one.  The callbacks of the timers, which only read what is set *)
(* here, are in module Coils.                                              *)
(***************************************************************************)
EXTENDS Integers, Sequences, Functions

CONSTANTS
  MOTOR_TIMER_FREQ, THRESV, MOTOR_SPEED_LIMIT,
  SPEED_BUTTERFLY, SPEED_APPROACH, SPEED_ROTATION, AVOIDANCE_SPEED, ROTATION_SPEED,
  SPEED_ANIMATION1, SPEED_ANIMATION2,
  PidSpeed          (* the sizes of the speeds pid_regulator returns *)

ASSUME SpeedAssumption ==
  /\ {MOTOR_TIMER_FREQ, THRESV, MOTOR_SPEED_LIMIT} \subseteq Nat \ {0}
  /\ {SPEED_BUTTERFLY, SPEED_APPROACH, SPEED_ROTATION, AVOIDANCE_SPEED, ROTATION_SPEED,
      SPEED_ANIMATION1, SPEED_ANIMATION2} \subseteq 1 .. MOTOR_SPEED_LIMIT
  /\ PidSpeed \subseteq Nat

(* The numbers of the source: at every speed up to the limit the interval  *)
(* is a uint16_t and not 0.                                                *)
ASSUME IntervalAssumption ==
  /\ MOTOR_TIMER_FREQ < 2 * 65536
  /\ 2 * MOTOR_SPEED_LIMIT <= MOTOR_TIMER_FREQ

(* Of the same numbers: speeds are whole, so the interval of one that      *)
(* saves power (2 * 324 microsteps) is longer than the pulse, if only by   *)
(* the tick that separates 100000 \div 650 from 100000 \div 649; and        *)
(* avoid_obstacles drives too fast to save power.                          *)
ASSUME PulseAssumption ==
  /\ THRESV > 1
  /\ MOTOR_TIMER_FREQ \div THRESV < MOTOR_TIMER_FREQ \div (THRESV - 1)
  /\ 2 * SPEED_ROTATION >= THRESV /\ 2 * AVOIDANCE_SPEED >= THRESV

VARIABLES
  wheel,        (* each wheel: direction, period, power save channel enabled *)
  todo, at,     (* each thread: the calls of its burst that are left, and    *)
                (* where it is in the first of them                          *)
  manoeuvre,    (* how far avoid_obstacles is: "watch", "turn" or "ahead"    *)
  system_halted,
  asked,        (* history: each thread's last burst                         *)
  latest,       (* history: the thread whose burst began last                *)
  cut           (* history: ... cutting one of "low"                         *)

history == <<manoeuvre, asked, latest, cut>>
motorsVars == <<wheel, todo, at, system_halted, history>>

WheelName == {"left", "right"}
Caller == {"low", "avoid"}
Period == {p \in Nat : 1 <= p /\ p < 65536}   (* of 16 bits *)
Other(w) == IF w = "left" THEN "right" ELSE "left"

(***************************************************************************)
(* The bursts of calls between two blocking calls of a thread.             *)
(***************************************************************************)
Ask(w, speed) == [wheel |-> w, speed |-> speed]

LeftRight(l, r) == <<Ask("left", l), Ask("right", r)>>
RightLeft(r, l) == <<Ask("right", r), Ask("left", l)>>

WalkBursts ==
  {LeftRight(SPEED_BUTTERFLY, -SPEED_BUTTERFLY),
   LeftRight(SPEED_BUTTERFLY, SPEED_BUTTERFLY),
   LeftRight(0, 0)}

ScanBursts ==
  {LeftRight(SPEED_APPROACH, SPEED_APPROACH),
   LeftRight(-SPEED_APPROACH, -SPEED_APPROACH),
   LeftRight(ROTATION_SPEED, -ROTATION_SPEED)}

PidBursts ==
  {RightLeft(s, s) : s \in PidSpeed \cup {-size : size \in PidSpeed}}
  \cup {RightLeft(SPEED_ANIMATION1, -SPEED_ANIMATION1),
        RightLeft(-SPEED_ANIMATION2, SPEED_ANIMATION2),
        RightLeft(0, 0)}

LowBursts == WalkBursts \cup ScanBursts \cup PidBursts

(* avoid_obstacles stops and turns away, drives past, stops.               *)
TurnBursts ==
  {LeftRight(0, 0) \o LeftRight(s, -s) : s \in {SPEED_ROTATION, -SPEED_ROTATION}}
AheadBurst == LeftRight(AVOIDANCE_SPEED, AVOIDANCE_SPEED)
StopBurst == LeftRight(0, 0)

(***************************************************************************)
(* motor_set_speed.                                                        *)
(***************************************************************************)
(* Seeded fault: the speed is not limited from below. *)
Limited_above(speed) == IF speed > MOTOR_SPEED_LIMIT THEN MOTOR_SPEED_LIMIT ELSE speed

Limited(speed) ==
  IF speed > MOTOR_SPEED_LIMIT THEN MOTOR_SPEED_LIMIT
  ELSE IF speed < -MOTOR_SPEED_LIMIT THEN -MOTOR_SPEED_LIMIT ELSE speed

(* In microsteps per second. *)
Microsteps(speed) == 2 * Limited(speed)

Size(n) == IF n < 0 THEN -n ELSE n

Direction(speed) ==
  IF speed = 0 THEN "HALT" ELSE IF speed > 0 THEN "FORWARD" ELSE "BACKWARD"

(* Seeded fault: the threshold is compared with steps, not microsteps. *)
SavesPower_steps(speed) == speed # 0 /\ Size(Limited(speed)) < THRESV

SavesPower(speed) == speed # 0 /\ Size(Microsteps(speed)) < THRESV

(* In ticks of the timer, from a step to the next. *)
Interval(speed) ==
  IF speed = 0 THEN 1000
  ELSE (MOTOR_TIMER_FREQ \div Size(Microsteps(speed))) % 65536

(* The pulse after which the power is cut. *)
PULSE == MOTOR_TIMER_FREQ \div THRESV

(***************************************************************************)
(* Who runs: avoid_obstacles whenever it has something to do.              *)
(***************************************************************************)
Idle(t) == todo[t] = <<>>

MayRun(t) == ~system_halted /\ (t = "low" => Idle("avoid"))

(* The last speed that a burst asks of wheel w. *)
Final(burst, w) ==
  LET last == CHOOSE i \in DOMAIN burst :
                /\ burst[i].wheel = w
                /\ \A j \in DOMAIN burst : j > i => burst[j].wheel # w
  IN burst[last].speed

Begin(t, burst) ==
  /\ MayRun(t) /\ Idle(t)
  /\ todo' = [todo EXCEPT ![t] = burst]
  /\ asked' = [asked EXCEPT ![t] = burst]
  /\ latest' = t
  /\ cut' = (t = "avoid" /\ ~Idle("low"))
  /\ UNCHANGED <<wheel, at, system_halted>>

low_bursts ==
  /\ \E burst \in LowBursts : Begin("low", burst)
  /\ UNCHANGED manoeuvre

avoid_bursts ==
  \/ manoeuvre = "watch" /\ manoeuvre' = "turn" /\ \E b \in TurnBursts : Begin("avoid", b)
  \/ manoeuvre = "turn" /\ manoeuvre' = "ahead" /\ Begin("avoid", AheadBurst)
  \/ manoeuvre = "ahead" /\ manoeuvre' = "watch" /\ Begin("avoid", StopBurst)

(***************************************************************************)
(* The steps of the call in which thread t is.                             *)
(***************************************************************************)
Underway(t, place) == MayRun(t) /\ ~Idle(t) /\ at[t] = place

Call(t) == Head(todo[t])

Goes(t, place) == at' = [at EXCEPT ![t] = place] /\ UNCHANGED todo

(* Seeded fault: a wheel that is asked to stop keeps its direction. *)
set_direction_moving(t) ==
  /\ Underway(t, "direction")
  /\ IF Call(t).speed = 0 THEN UNCHANGED wheel
     ELSE wheel' = [wheel EXCEPT ![Call(t).wheel].direction = Direction(Call(t).speed)]
  /\ Goes(t, "channel")
  /\ UNCHANGED <<history, system_halted>>

set_direction(t) ==
  /\ Underway(t, "direction")
  /\ wheel' = [wheel EXCEPT ![Call(t).wheel].direction = Direction(Call(t).speed)]
  /\ Goes(t, "channel")
  /\ UNCHANGED <<history, system_halted>>

(* pwmEnableChannel or pwmDisableChannel.                                  *)
set_channel(t) ==
  /\ Underway(t, "channel")
  /\ wheel' = [wheel EXCEPT ![Call(t).wheel].enabled = SavesPower(Call(t).speed)]
  /\ Goes(t, IF SavesPower(Call(t).speed) THEN "notification" ELSE "period")
  /\ UNCHANGED <<history, system_halted>>

(* pwmEnableChannelNotification asserts that the channel is enabled, and   *)
(* CH_DBG_ENABLE_ASSERTS is TRUE in chconf.h: the system stops if not.     *)
enable_notification(t) ==
  /\ Underway(t, "notification")
  /\ IF wheel[Call(t).wheel].enabled
     THEN Goes(t, "period") /\ UNCHANGED system_halted
     ELSE system_halted' = TRUE /\ UNCHANGED <<todo, at>>
  /\ UNCHANGED <<wheel, history>>

(* pwmChangePeriod, and the call returns.                                  *)
change_period(t) ==
  /\ Underway(t, "period")
  /\ wheel' = [wheel EXCEPT ![Call(t).wheel].period = Interval(Call(t).speed)]
  /\ todo' = [todo EXCEPT ![t] = Tail(todo[t])]
  /\ at' = [at EXCEPT ![t] = "direction"]
  /\ UNCHANGED <<history, system_halted>>

(***************************************************************************)
(* motors_init.  The threads have asked for nothing yet.                   *)
(***************************************************************************)
MotorsInit ==
  /\ wheel = [w \in WheelName |->
                [direction |-> "HALT", period |-> 65535, enabled |-> FALSE]]
  /\ todo = [t \in Caller |-> <<>>]
  /\ at = [t \in Caller |-> "direction"]
  /\ manoeuvre = "watch"
  /\ system_halted = FALSE
  /\ asked = [t \in Caller |-> <<>>]
  /\ latest = "nobody"
  /\ cut = FALSE

MotorsNext ==
  \/ low_bursts \/ avoid_bursts
  \/ \E t \in Caller :
       set_direction(t) \/ set_channel(t) \/ enable_notification(t) \/ change_period(t)

MotorsSpec == MotorsInit /\ [][MotorsNext]_motorsVars

(***************************************************************************)
(* Properties.                                                             *)
(***************************************************************************)
(* The variables have the types of the code. *)
MotorsTypeOK ==
  /\ wheel \in [WheelName -> [direction : {"HALT", "FORWARD", "BACKWARD"},
                              period : Period, enabled : BOOLEAN]]
  /\ at \in [Caller -> {"direction", "channel", "notification", "period"}]
  /\ manoeuvre \in {"watch", "turn", "ahead"}
  /\ latest \in Caller \cup {"nobody"}
  /\ system_halted \in BOOLEAN /\ cut \in BOOLEAN
  /\ \A t \in Caller : Len(todo[t]) <= Len(asked[t]) /\ Len(asked[t]) \in {0, 2, 4}

AllIdle == \A t \in Caller : Idle(t)

(* What a wheel does when it does as it was last told: it stands, or makes *)
(* a microstep as often as asked, rounded up to a tick of the timer, never *)
(* faster than the limit; the power is cut between steps only when these   *)
(* are so far apart that the pulse fits.                                   *)
Obeys(w, speed) ==
  LET s == wheel[w]
      v == IF Size(speed) > MOTOR_SPEED_LIMIT THEN MOTOR_SPEED_LIMIT ELSE Size(speed)
  IN  /\ (s.direction = "FORWARD") <=> speed > 0
      /\ (s.direction = "BACKWARD") <=> speed < 0
      /\ v > 0 => /\ s.period * 2 * v <= MOTOR_TIMER_FREQ
                  /\ (s.period + 1) * 2 * v > MOTOR_TIMER_FREQ
      /\ s.enabled <=> (v > 0 /\ 2 * v < THRESV)

(* Once no call is under way, and if the last burst cut none, each wheel   *)
(* obeys the thread that asked last: whatever was set, enabled or cut      *)
(* before leaves no trace.                                                 *)
WheelsObey ==
  AllIdle /\ ~cut /\ latest # "nobody" =>
    \A w \in WheelName : Obeys(w, Final(asked[latest], w))

(* When avoid_obstacles has cut a burst and both are through, the wheels   *)
(* go the way one of the two wants, or one mixed way: the wheel which the  *)
(* cut thread sets first obeys avoid_obstacles and the other the cut       *)
(* thread, whose outdated command wins.  The other mix does not happen.    *)
OnlyOneMix ==
  AllIdle /\ cut =>
    LET first == asked["low"][1].wheel
        goes(w, t) == wheel[w].direction = Direction(Final(asked[t], w))
    IN  \/ \A w \in WheelName : goes(w, "low")
        \/ \A w \in WheelName : goes(w, "avoid")
        \/ goes(first, "avoid") /\ goes(Other(first), "low")

(* The PWM driver is never given a period shorter than the pulse of an     *)
(* enabled channel, "then the behavior is not guaranteed" (pwm.c:131).     *)
PulseFits ==
  [][\A w \in WheelName :
       wheel'[w].period # wheel[w].period /\ wheel'[w].enabled
         => PULSE < wheel'[w].period]_motorsVars

(* pwm.c:269 asserts of its callers that they ask for the notification of  *)
(* a channel only when it is enabled.  A power save that avoid_obstacles   *)
(* cuts after its first step breaks it, and the assertion halts the robot. *)
ChannelEnabled == ~system_halted

=============================================================================
