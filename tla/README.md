# A verification of the tavern-and-hunt robot

The program (`src/ProjetCode/ProjetEPuck`) runs on an e-puck2 robot under
ChibiOS/RT. With the selector at 0 the robot strolls in a tavern, avoids
obstacles and fetches a beer when it gets thirsty; at 1 it hunts an enemy; at
any other position it does nothing. Six threads share two motors, one distance
sensor and a handful of flags, without one lock: what keeps them apart is the
order in which they poll each other's flags and how long they sleep. Under them
lie the parts of the e-puck2 library that the application leans on, each with
its own threads, interrupts and flags. The whole of the first and the relevant
part of the second are modelled, checked and, as far as section 5 says, proved.

## 1. The parts of the system

| component | state | operations | interacts with |
|---|---|---|---|
| `main.c` | `tavern_threads_resumed`, static `thirsty` and `beer_time`, its place in `tavern_phase` / `tracking_phase` / `reinit` | read the selector, pause and resume, start and poll the missions, choose the song | everybody; polls `good_color`, `beer_gotten`, `is_done` every 100 ms |
| `walk.c` | `is_paused`, `thd_is_created`, stroke counter | start, pause, resume, the thread | motors |
| `avoid_obstacles.c` | the same two flags, the last message, the sensor being avoided, `time_avoid` | start, pause, resume, the thread | `/proximity` topic, motors |
| `scan.c` | `color_mode`, `good_color`, `must_stop`, `thd_exist` | set colour, start, stop, verdict, the thread; `distance_approach` is also used by beer.c | TOF sensor, camera, motors |
| `beer.c` | `beer_gotten`, `must_stop`, `thd_exist` | start, stop, served?, the thread | TOF sensor, motors |
| `pid_distance.c` | `is_done`, `must_stop`, `thd_exist`, statics `stable_time`, averaging window, sum of errors | start, stop, done?, the thread with its sword stroke | TOF sensor, motors |
| `process_image.c` | `is_paused`, raw and averaged detections, window of ten images, semaphore | start, pause, resume; a capture thread and a processing thread | camera driver, scan |
| `melody_player.c`, `audio/play_melody.c` | `music_to_play`, `temp`; `play`, the reference of the suspended thread | set the song; a player thread and a melody thread | each other, main |
| `motors.c` | per wheel: direction, timer period, power-save channel, coil step, position | set speed, set position; timer callbacks | walk, avoid_obstacles, missions |
| `sensors/proximity.c`, `msgbus/messagebus.c` | round counters of timer and converter, calibration, the topic with its lock and condition variable | calibrate, measure, publish, wait | avoid_obstacles |
| `camera/dcmi_camera.c` | two buffers, the one being filled, `image_ready` | start a capture, wait, last image | process_image |
| TOF sensor, selector | last measurement; position | read | missions; main |
| ChibiOS/RT | ready list, virtual timers | sleep, windowed sleep, preemption, 20 ms quantum | all threads |

Walk, scan, beer, pursuit, both camera threads, player, melody thread,
proximity thread and main are NORMALPRIO; `avoid_obstacles` is 8 above and the
TOF thread 10 above.

**Hard behaviours.** A pause does not interrupt (walk.c:30, avoid_obstacles.c:43):
a butterfly of 7.3 s goes on into a mission. A mission's thread clears
`thd_exist` and sets its result before it is really gone. Results, windows and
sums are statics that outlive the thread. main waits in inner loops that do not
read the selector. `is_done` is set before the animation. `avoid_obstacles`
cuts in between any two motor calls, and between two steps of one. Ends of
frames, of melodies and of publications are told on condition variables that
remember nothing. The list, with lines and the properties that watch over each,
is under "hazards" in PROJECT.json.

**What makes each component correct.** main: one mission at the wheel, started
afresh, acting on its own verdict; its record of the pauses is right; what is
begun is finished. walk and avoid_obstacles: a pause takes effect in the end
and the wheels are stopped. scan, beer, pursuit: every way out stops the motors
and the camera, and stop requests are not lost. Regulator: no overflow, no
collision, every enemy is reached. Camera: whole images, a verdict of this
object, waits that end. Line detection: all lines and only lines. Melodies: no
song lost, the one asked for is played. Motors: the wheels obey whoever asked
last, the coils follow the count. Proximity: whole and new messages that keep
coming.

## 2. Modules

The application:

| module | models |
|---|---|
| `Platform` | time in ticks, the motors' signs, the sensor, `distance_approach` |
| `Walk`, `AvoidObstacles`, `Scan`, `Beer`, `PidDistance` | one thread each, with the functions of its header |
| `Robot` | main.c and the composition of the five; properties of the whole |
| `MissionProtocol` | the abstract specification: an errand is sought, sighted, acted on by the one right mission, and over, without threads, flags or time |
| `RobotRefinement` | the mapping under which `Robot` implements `MissionProtocol` |
| `OpenMissions` | each mission alone, under callers that keep to no protocol |

The parts under it:

| module | models |
|---|---|
| `Scheduler` | chschd.c of the kernel: priorities, ready list, quantum, preemption |
| `Peers` | what is left of it for threads of one priority: a ready list, blocking, waking |
| `MelodyPlayer` | melody_player.c's thread and play_melody.c's |
| `Camera` | process_image.c's two threads, the driver's one-shot capture and the scan's look |
| `LineDetection` | `detection_line` of process_image.c, loop by loop, on one row of pixels |
| `PidRegulator` | the numbers of pid_distance.c in a loop with wheels, sensor and an enemy |
| `Motors` | motors.c from above: `motor_set_speed` step by step, between two threads |
| `Coils` | motors.c from below: timer callbacks, step table, counted position |
| `Proximity` | light pulses, conversion, calibration, publication, `avoid_obstacles`' waits |

Proofs: `RobotInvariant` (the inductive invariant) and `RobotProofs` (the application,
down to `MissionProtocol`); `OpenMissionsProofs`; `PidRegulatorProofs`;
`CameraProofs` (`Camera` and `LineDetection`); `MotorsProofs` (`Motors` and `Coils`);
`ThreadsProofs` (`Proximity` and `MelodyPlayer`); `PartsProofs` (`MCParts`, from these
three); `SchedulerProofs` (`Scheduler`, down to `Peers`). Small instances: `MCRobot`,
`MCOpenMissions` (with the scheduler), `MCParts`, and `MCClaims` with the comments that
the code does not keep.

### How state and actions correspond to the code

A static or a local that matters is a variable of the same name, prefixed with
its file where two files of one module use the same name (`walk_is_paused`,
`scan_must_stop`). Where a thread is in its function is `walk_pc`, `scan_pc`,
...: `poll` is the top of the 100 Hz loop, the other values are the sleeps
inside it. `x_sleep` is what is left of the sleep. "map" in PROJECT.json gives
the lines each definition stands for.

**Bursts.** In the application's modules one action is what a thread does
**between two sleeps**; its name says which (`ScanLook` is scan.c from the end
of the approach to the sleep in front of the camera). Threads of one priority
are not interleaved inside such a burst: a burst is microseconds, the quantum
20 ms. `Scheduler` derives this from the kernel's code: `KeepsPeers`, checked and proved, says that a
thread cut by a higher one goes on before its peers do, so that to its peers a
burst is one step. Exceptions are modelled: the loops that do not sleep (`tavern_phase`'s
and scan.c:106) may be cut anywhere, each turn being an action; and the last
statements of a mission's thread are separate actions (`ScanClear`, `ScanExit`,
...), so that nothing depends on their being one burst. Higher threads can cut
in: three readings in a row may straddle one new measurement (`Readings3`), and
what `avoid_obstacles` does to a motor call it cuts is what `Motors` is about,
where a call is its three or four atomic steps. The other exception in `KeepsPeers`,
a thread that wakes a higher one by `chSchWakeupS` and so goes behind its peers, is
`proximity_thd` (it gives back the topic's lock); it shares nothing with the missions.

In the modules of the parts the grain is finer, because there a wake-up told
too early is the question. `MelodyPlayer` and `Camera` have an action for
everything between two calls that block, wake or test a flag, on the one
processor of `Peers`: a woken thread goes to the end of the ready list and the
running one keeps the processor until it blocks. `Proximity` has two priorities
instead: `avoid_obstacles` runs whenever it can, interrupts come between any two
steps, and a copy of the message is made in halves.

**Time.** In `Robot`, `Tick` is enabled when no thread is due, and counts every
sleep down. A sleep of the code is a constant number of ticks; a poll (10 or
100 ms, or the loops without a sleep) is shorter than a tick, may happen any
number of times within one, and must happen at least once. What depends on time
is therefore order and duration ratio, never the value in ms. `Camera` counts
ticks in the same way; `PidRegulator` counts the 10 ms iterations themselves.

**Data reduced to what the properties tell apart.**
- Distance, for the missions, in what is driven in a tick at `SPEED_APPROACH`, so
  that `distance_approach(d)` sleeps `d` ticks; `int16` is the wrap of the step
  count (scan.c:33) at `INT16_DIST`. A reading is any element of `Dist`, chosen
  again at every call.
- `Platform` keeps the motors' signs and the thread that wrote last; `Motors` the
  direction, period and channel of each wheel; `Coils` one motor's coils.
- In `Robot` a proximity message is the set of sensors above the threshold, the
  PID's output its sign, the camera's detections two free Booleans. In
  `PidRegulator` they are numbers: KI and KD being 1.4, the sum of errors is
  counted in sevenths and a speed in fifths, exactly (the code's floats round). A
  speed that does not fit `int16_t` is any of the two values a build makes of it.
- In `Camera` an image is the set of colours on which a line is detected; on a
  capture under way when the scan turned to an object it may be any.
- In `LineDetection` what lies in memory before the image is a free choice.
- A song is its number of notes; a note with its pause is one sleep.
- In `Proximity` a measurement is a number modulo `ROUND`, enough to tell the last
  from the one before, and `Unlit` if a sample was not taken in its own light.

Variables commented "history" (`asked`, `latest`, `cut`, `zero`, `field`, `lit`,
`since`) record what happened for the sake of a property and are read by no guard.

**The definitions commented "Seeded fault"** are not part of any specification.
Each is a plausible wrong version of the definition after it; replacing that
definition by it makes a named property fail (the list is "mutants" in
PROJECT.json), which shows that the property looks at the code.

## 3. Runs

| run | shows | distinct states |
|---|---|---|
| `robot` | the whole application, selector turned at any moment, no obstacle: exclusion, fresh starts, own verdicts, pauses, song, end of the walk, and the protocol of missions | 748,980 |
| `robot_motors` | the same with obstacles right, front and left: the wheels stand still when nobody drives | 5,016,033 |
| `robot_live` | what is begun is finished | 267,423 |
| `open_missions` | scan, beer and pursuit under arbitrary starts and stops; and the scheduler | 55,296 |
| `regulator` | two pursuits in a row, in numbers | 1,693,448 |
| `parts` | the six parts under the missions | 818,106 |
| six `*_claim` runs | each refutes a comment or an assertion of the repository, see section 6 | |

`parts` is one run for six modules. They share no variable but the processor of
`Peers` (which `MelodyPlayer` and `Camera` use, one at a time); the variable
`part` says which of them a behaviour is about, and the others stay as they were
initialised. Its state space is the sum of theirs, not the product. `open_missions` is
put together from `OpenMissions` and `Scheduler` in the same way. Deadlock is checked: `PartStops`
lets a part rest only where it may (the line detection has returned, an assertion
has halted the motors).

### The properties

Of the application:
- `MissionExclusive`, `MissionStartsAfresh`, `VerdictIsForThisScan`: the hand-over
  between main and the missions. They are hard because a start is silently
  ignored when a flag is still set and because results are read by polling.
- `KeepsProtocol`: all of that as one abstract machine, `MissionProtocol`.
- `StopsFindNobody`: `reinit`'s stop calls never meet a living mission, so the
  `must_stop` branches are dead code in this program. It rests on time: the
  animation (1.36 s) ends before the victory song's 5 s.
- `StrollersPausedOnMission`, `TavernHasItsSong`: main's record against the flags
  and the song, over all paths of the selector.
- `IdleMeansStill`: the last writer of the motors stopped them, whichever of
  five threads that was.
- `WalkEndsBeforeHold`: a butterfly that was under way when main paused the walk
  is over when main holds after the victory.
- `PausedWalkRests`, `FindingIsUsed`, `BeerEndsInStroll`, `StrikeEndsHunt`: liveness.
- `NothingIsLeftOn`, `StopIsNotLost`: the missions as components, where `must_stop`
  is reachable.

Of the scheduler:
- `KeepsPeers`: every step of the kernel is, to the threads of one priority, a step of
  `Peers` or none, whatever the higher threads and the interrupts do.
- `PartRunsEveryPeer` (`EveryPeerRuns`): with one peer looping for ever, all the others
  get the processor again and again: the quantum counts on through preemptions.

Of the regulator: `ConversionsDefined` (no wrap, no undefined cast, whatever the
last pursuit has left in the statics), `NeverRuns` (into the enemy), `StrikesAtGoal`,
`EnemyIsReached` (no oscillation for ever, with a sensor 100 ms late).

Of the parts:
- melody: `NoSongIsLost`, `WaitedEndIsToCome`, `PartPlaysAskedSong`. They hold because
  the two threads are peers: the melody thread, having told the end, suspends
  itself before the player runs. With a player of higher priority they fail.
- camera: `NoTornImage` (the next capture fills the other buffer), `VerdictOfThisLook`
  (neither the old average, nor the semaphore left signalled, nor a capture under
  way decide), under the premise that a capture does not end before it is waited
  for - without it see `camera_wait_claim`.
- motors: `WheelsObey` and `OnlyOneMix` say which torn pairs of commands can last;
  `PulseFits` is the PWM driver's requirement of its callers.
- coils: `CountFollowsCoils`, `RotorFollows`.
- line: `SeesOnlyLines`, `SeesEveryLine`, with the two exceptions the code makes.
- proximity: `TopicIsAtomic`, `WaitGivesNewMessage`, `CalibrationIsClean`,
  `PartGetsMessages`.

### Bounds

- `Robot`: sleeps are 1 to 4 ticks. What matters is kept: animation < song (1+2 < 4,
  in the code 1.36 s < 5 s); a butterfly is longer than one song and shorter than
  two (7 ticks against 4+4; in the code 7.3 s against 5 s + 5 s); the standing time
  is long enough to be interrupted by a move (`STABLE_DURATION = 1`). `Dist` has an
  object to back off from or approach and a distance out of range; with
  `INT16_DIST = 4` the latter wraps and is reached by a reading that straddles two
  measurements. Obstacle messages have none, one on the right, and one on each side
  of the front, so that one message makes the loop avoid two obstacles in turn.
  `robot_motors` and `robot_live` use the smallest sleeps; `robot_live` has one distance,
  `robot_motors` that and one out of range, whose step count wraps. There is
  no artificial bound: elapsed times stop counting one past the limit they are
  compared with.
- `regulator`: the numbers are the code's (`STABLE_DURATION` and `TOF_PERIOD` in
  iterations of 10 ms); starts from 15 to 1000 mm, every phase of the sensor, an
  enemy that moves once; `PURSUITS = 2`, as what outlives a pursuit is what the
  next begins with. `RANGE = 1526` is not a bound for TLC's sake but the largest
  range at which the cast of the speed is defined.
- melody: three songs of one to three notes, so that a change may fall on the first,
  a middle or the last one.
- camera: a window of 3 images and a look of 4 ticks. The assumption `EnoughFrames`
  keeps the code's relation: a look (500 ms) is long enough for a majority of the
  window whatever is left of a sleep or a capture when it begins.
- motors: the source's constants, and for the PID's output speeds on both sides of
  the power-save threshold (324, 325), of the limit (1101), 0, and nearly the largest.
- coils: counts up to 9 either way (bound `COUNT`), more than a turn of the table;
  the proof has no bound.
- line: all rows of 9 pixels of 3 values, slope 3, width 4: room for a line too
  small and a line behind it. The proof has no bound.
- proximity: `SAMPLES = 3` (100 in the code) and `ROUND = 2`.
- scheduler: four peers, two of which may loop without sleeping, and two higher threads;
  a quantum of 3 ticks (20 in the code), longer than the `BURST` of 2 that a thread
  without such a loop may run until it sleeps (microseconds in the code, so that 20
  against 1 would do). An interrupt wakes at most one thread; several in a row, more.

### Fairness

- `Robot`'s `FairSpec`: weak fairness of each thread's next burst and of `Tick`. The
  scheduler is round robin among equals with a quantum, no thread above NORMALPRIO
  runs without blocking, and the timer interrupt never stops, so a thread that is
  due is scheduled. A thread that may poll forever within a tick is harmless: `Tick`
  needs each poller to have polled once, and stays enabled. Nothing is assumed of
  the selector, of the sensors or of the camera: no object need ever be found.
- `OpenFairness`: strong fairness of `OpenTick`, because its caller may restart a mission
  again and again and each restart disables the tick for a moment; real callers do
  not do that in zero time.
- `RegulatorFairSpec`: the thread iterates and the wheels turn. `EnemyMoves` is not
  fair; it happens at most once a pursuit.
- `MelodyFairness`: both threads, both timers and the dispatcher; main need never ask
  for another song.
- `ProximityFairness`: the timer and the converter together, both threads, and
  `avoid_obstacles`' sleeps. A measurement takes 10 ms and a thread's step
  microseconds.
- `SchedulerFairness`: the timer and the kernel go on, and a thread without a loop
  sleeps in the end; strongly, if it wakes higher threads, as it is then cut by each
  of them, but only finitely often between two sleeps. A looping thread need not sleep.
- `CameraFairSpec` (for the refutation): threads, timers, dispatcher, time, and the end
  of a capture that was begun. The counterexample thus shows more than a stop.

## 4. The abstract specification

`MissionProtocol` has seven phases (free, seeking, sighted, fetching, served,
chasing, struck), the set of missions at the wheel, the colour wanted, and whether
a stroller may begin to move. It promises that a mission takes the wheel only when
its predecessor has let go, that only the mission for the wanted colour follows a
sighting, and that strolling resumes only after the errand. `RobotRefinement` reads
the phase off main's place and the three results, and who drives off the missions'
own places - not off `thd_exist`, which lags behind. `LowerTheSword` is a step
of its own because the code tells the victory before the sword stroke.

## 5. Proofs

Each theorem holds for all values of the constants that satisfy the named
assumptions of the modules (sleeps are positive integers, distances natural,
colours and sizes as declared), which TLC evaluates on the runs.

**The application** (`RobotProofs`). `TypeCorrect`, then the inductive
invariant and six properties that follow from it: `Exclusive`, `StartsAfresh`,
`VerdictIsFresh`, `StopsAreIdle`, `PausedOnMission`, `Still`. None of the properties
is inductive by itself. `IInv` adds what orders the threads:

- `FlagsInv`: `thd_exist` agrees with the thread's place;
- `LeavingInv`: a thread on its way out does not sleep, hence no tick passes until
  it is gone - this is what replaces the missing join;
- `ScanInv`, `BeerInv`, `PidInv`: for each place of a mission the places where main
  can be, with the sleeps: e.g. in the sword stroke, main is still in its
  polling loop or has more of the victory song before it than the stroke has
  left (here `AnimationFitsInSong` is used, once, in `EnemyHit`);
- `VerdictInv`: the colour asked for and what was seen, until main has acted on it;
- `PauseInv`: the strollers' flags against main's record; not created before boot.

The proof that a step preserves a part goes action by action; the parts are
independent enough that each has its own lemma: `MissionStep` uses `TypeOK`,
`VerdictStep` and `StillStep` use `MissionInv`, `PauseStep` stands alone.

**Songs and the walk** (`RobotProofs`). `SongInTavern`: where main may resume nobody,
the strollers stroll to the tavern's song (`SongInv`). `WalkEnds` has the hypothesis
`SongsOutlastButterfly`, that three strokes and a rest are shorter than two songs,
and a measure, `WalkLeft`, the time that the butterfly has left. `EndingInv` says how
much of it the songs that main has sung since it paused the walk have used up; a
step of the walk does not change `WalkLeft`, a tick takes one from it and one from
main's sleep, and when main comes to hold nothing can be left.

**The refinement** (`RobotProofs!Refines`). Under `IInv` every step of `Robot` maps
to a step of `MissionProtocol` or to a stutter, action by action.

**The regulator** (`PidRegulatorProofs`). `RegulatorTyped` and `NothingOverflows`: for
every `RANGE` up to 1526 mm and every start, pursuit after pursuit, the sum of ten
readings fits a `uint16_t` and the speed an `int16_t`; the bound on the mean and the
cap on the sum of errors are the lemmas it rests on.

`StrikesThere` has the hypothesis that `STABLE_DURATION` is at least `TOF_PERIOD` + 20
iterations: the code's 60 leave the sensor 400 ms. `StandInv`: in the first pursuit
the time since the robot was seen stable is the time that it stands. `SeenInv`: the enemy
may move until the tenth iteration of a stand; `TOF_PERIOD` iterations later the sensor
shows where the robot stands, after ten more the whole window does (`FullWindow`).
`ErrorInv` then says that the error must be small within two iterations: were it not,
each adds at least 140 to the sum or takes it away, and a speed that is 0 all the same
is not 0 in the next. Without that the robot could strike where the sum of errors
happens to cancel the error.

`RunsIntoNobody` has the hypothesis `TurnsUpFarEnough`: no enemy turns up nearer than `Near`,
which with the sensor's 10 iterations is 40 mm. (A period is at most 31; then `Near`
is within the 70 mm that stop the robot.) Two things carry the robot on when it is
near already, and the invariant has a part for each, over all pursuits and for
whatever the statics hold. Old readings: `ToldInv` says that a reading of 70 mm or more
was true as many moves ago as it is old, or that the enemy has turned up since; hence
when the last of them has left the window, enough road (`WINDUP`) is left. The sum of
errors: from then on the error is at most -20, the sum falls by 140 in each
iteration, and the robot only goes on while it is above 1930; `Clear` is the road
that this takes, a square of the sum (`ClearMove`, `ClearAtWindup`). That the robot
stops in time from 15 and 30 mm as well is checked by the run `regulator`: an enemy that comes
so near while old readings are still in the window is not covered by the argument.

**The missions alone** (`OpenMissionsProofs!NothingLeftOn`). `OpenInv`: the wheels turn
only for the mission that is called, its thread is then known to exist, so that a
second start does nothing, and the camera works exactly while a scan looks. It needs
no protocol of the caller: any calls of start and stop may fall between two sleeps.

**The motors** (`MotorsProofs`). Two threads inside `motor_set_speed`, of which one cuts
the other between any two steps. `MotorsInv` says what is left of each burst
(`BurstsInv`: an end of what was asked), who may be in the middle of one (`WhoInv`), what
the one that began last has set so far (`ProgressInv`), which directions a burst that
was cut can still leave (`MixInv`), and that only calls that save power ask for a
notification (`PulseInv`). `LastCommandCounts` and `OneMixOnly` follow for all speeds.
`PulsesFit` rests on `PulseAssumption`, which is about the numbers of motors.c:6-7 and of the
callers: the interval of the fastest speed that saves power (324) is one timer tick
longer than the pulse, and `avoid_obstacles` is faster. That `PULSE` and the intervals
are quotients of the same frequency is what the arithmetic lemmas are for.

**The coils** (`MotorsProofs`). `CoilsTyped` and `CountAndCoilsAgree`: counted position
and step of the coils agree modulo 8, for both mountings and any count.
`RotorCanFollow`: the field, when it is on, is the one of the step that the index is at
(`FieldInv`), and neighbours in the table are neighbours on the circle.

**The camera** (`CameraProofs`). `WholeImages`: `ReadyInv` ties the place of each thread to its
place in the ready list; from it, a thread that was woken to copy an image runs
before the next capture is signalled. It also holds when a capture ends too early.
`VerdictsHold` has the hypothesis `EndsBeforeWait = FALSE` (section 6, item 4, shows what
happens otherwise) and rests on the assumption `EnoughFrames`. It is an argument about
time without liveness. `LookInv` says of every moment of a look that for some k the k newest
places of the window hold the object (`Good`), and that what is left of the look exceeds
the time to the next capture (`Delay`) plus a frame for each image that the majority
still lacks, not counting those on their way (`Pending`: signalled, copied or about to
be; `OnTime`). A tick takes one from both sides; a capture that ends turns a frame's time
into an image on its way; averaging turns that into one more of k. While
`ProcessImage` sleeps none counts, and its sleep stands before them all. When the look is
over nothing can be lacking, and `MajorityIsIt` (a count of places of a cyclic window,
`NewestAreMany`, `NewestNext`) makes the average the object.

**The line detection** (`CameraProofs`). `LineInvariant` states what each loop has ruled
out: no line begins between the last end and `counter`, no end lies between `begin` and
`counter`. `OnlyLines` and `EveryLine` follow, for images of any size and content.
`LineTypes` has the mean in it, which is a fold over the pixels. That this recursive
function exists and is natural (`SumsExist`, `SumTyped`) is an induction over the size of
the set of positions: the library's theorems take operators, so each use collects in
a set the sizes for which the fact holds (`Counting`).

**The parts together** (`PartsProofs`). `PartsFollowModules`: in the run on `MCParts` a
behaviour about one part is a behaviour of that part's module, with the fairness that the
run assumes. Thus what is proved of the modules holds of the run, and what the run
finds is about the modules. `PartsTyped` needs `MelodyInv`, `MotorsInv` and `StillSumming`
besides the types, and that 0 is a pixel (of the image at rest).

**The sensors and the topic** (`ThreadsProofs`). `CleanCalibration`: the pulse timer and
the converter are in step from the first round on (`LightInv`), and the measurement of that
first round is used up when the calibration begins to sum (`MeasureInv`); for any number
of samples. `WholeMessages` and `NewMessages` do not follow from the lock, which the
publisher does not take for its buffer, but from the priorities: once woken,
`avoid_obstacles` has its copy before the publisher goes on (`MessageInv`).

**The melodies** (`ThreadsProofs`). `MelodyInv`: each thread runs, is once in the ready list,
or has its reason not to be (`QueueInv`); the player only gets the processor when the melody
thread has suspended itself or is in a note (`TurnInv`); hence the end it waits for
is still to come (`EndInv`). `SongsArrive` and `EndsComeAfterTheWait` follow, for songs of any
length.

**The scheduler** (`SchedulerProofs`). `TakesTurns` is the refinement that the bursts of
the other modules rest on: every step of `Scheduler` is, to the threads of NORMALPRIO, a
step of `Peers` or none, for any number of threads, any looping and telling ones among
them, and any quantum. Only that a bounded burst is shorter than the quantum is assumed
(`SchedulerAssumption`; 20 ms against microseconds), and that every higher thread's
priority is above that of the peers. The invariant (`SchedulerSound`) has four parts:

- `ListInv`: a thread has the processor, or is once in the ready list, or in neither;
- `BurstInv`: a burst that was cut waits as the first of the peers - hence it is
  picked again before any of them;
- `QuantumInv`: a thread without a loop keeps some of its quantum, so that when it is
  preempted it goes ahead of its peers and not behind them;
- `KernelInv`: nobody has the processor exactly while the kernel switches.

That the ready list is sorted is not needed. What the proof needs of it is how `Only`
(the members of a set, in their order) goes with appending and with cutting the list at
a priority. These lemmas are inductions over the length of a list; since the library's
induction theorems take operators, `Induction` is derived from the least element of a
set of numbers, and each use collects in a set the lengths for which the fact holds.

**Only model-checked**:
- all liveness: `robot_live`, `EnemyIsReached`, `StopIsNotLost`, `PartPlaysAskedSong`,
  `PartGetsMessages`, `PartRunsEveryPeer`. Fairness and ENABLED are out of the prover's reach.
- `NeverRuns` for an enemy that turns up nearer than 40 mm (see above).

Every other invariant that a run expects to hold is a theorem.

## 6. Where the code and its comments or assertions part

1. `thirst_claim` - main.c:31 gives the time before the robot gets thirsty. After
   one beer it never does: `thirsty` stays false in the loop and main.c:66 restarts
   the clock on every turn.
2. `approach_claim` - scan.c:43 says `distance_approach` waits to have covered the
   distance. A walk still finishing its butterfly rewrites the motors meanwhile.
3. `avoidance_claim` - avoid_obstacles.c:17 says that after `AVOIDANCE_DURATION` the
   robot moves on forcibly. With an obstacle that stays in front it turns on.
4. `camera_wait_claim` - dcmi_camera.h:59 says that `wait_image_ready` sleeps until an
   image is ready. It does not look at `image_ready`: a capture that has ended
   before the wait is waited for in vain. It takes a thread kept off the processor
   for a frame's time (`EndsBeforeWait`), 65 ms against a quantum of 20 ms.
5. `second_strike_claim` - pid_distance.c:114 says that the robot attacks after
   standing still long enough. The window of readings and `stable_time` survive the
   pursuit; the second one strikes at its first reading, an enemy 20 cm away.
6. `motors_halt_claim` - pwm.c:269 asserts that a channel is enabled whose notification
   is asked for. `avoid_obstacles`, cutting a slow command after it enabled the
   channel, disables it; the assertion, which is compiled in, halts the robot.

Observed while modelling, and not the subject of a run:
- `stop_scan`, `stop_beer` and `stop_pid` never reach a living mission (`StopsFindNobody`),
  although scan.h:29 offers the first "if needed".
- play_melody.h:151 says that `playMelody` does not block its caller. Asked to force a
  change it waits for the end of the note under way (`PlayerWaits`), so a song asked
  for in the meantime is seen late; it is not lost.
- A stopped wheel's interval may be the one of another thread's command
  (motors.c:212 and 233); it does not turn.
- A line whose fall is at pixel 0 is given up (process_image.c:126-127), and the search
  for an end may read before the image (process_image.c:133): the two exceptions in
  `SeesEveryLine`.
- An empty beam gives ten readings of 8190 mm, whose `uint16_t` sum makes a mean of
  1636 mm and a speed of 32820, out of `int16_t`. No comment says what should happen;
  `ConversionsDefined` is therefore stated for readings up to `RANGE`.
- The first beer of a later stay in the tavern comes at once, `beer_time` being old.

## 7. Not modelled

- Of the kernel, the priority that a mutex lends to its owner (chmtx.c), the list of
  virtual timers (chvt.c: a timer that is due wakes its thread, `WakesAtMostOne`), and
  the queues of semaphores and conditions, which the modules that use them have as
  flags; its HAL, ports and demos. All of it is vendored code.
- The TOF sensor's I2C driver, the camera's configuration (po8030.c), its stream mode
  and the audio DAC: hardware access.
- Splitting a pixel into its colours, start-up, serial output, wording and logging: no
  property depends on them.
- Watch groups and non-blocking reads of the message bus, other drivers of the
  library (Aseba VM, FAT, SD, USB, IMU, LEDs, microphone, radio): not called by the
  application, or only to start a peripheral.

The share of the repository that is mapped is small because nearly all of it is the
two copies of the vendored operating system and library; of the application's own
files every one with behaviour is modelled.
