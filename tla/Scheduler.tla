------------------------------ MODULE Scheduler -----------------------------
(***************************************************************************)
(* chschd.c of ChibiOS/RT: fixed priorities, round robin with a quantum    *)
(* among equals.  The threads are seen as the kernel sees them: they run,  *)
(* wake others and go to sleep, and timer and devices interrupt them.      *)
(* What the modules of the application take for granted about peers, in    *)
(* module Peers and in their bursts, is derived here.                      *)
(***************************************************************************)
EXTENDS Integers, Sequences, SequencesExt

CONSTANTS
  Peer,       (* the threads of NORMALPRIO                                 *)
  Higher,     (* the threads above                                         *)
  Looping,    (* peers with a loop that does not sleep                     *)
  Telling,    (* peers that wake a higher thread by chSchWakeupS           *)
  idle,
  prio,       (* p_prio, of threads that own no mutex others wait for      *)
  CH_CFG_TIME_QUANTUM,
  BURST       (* ticks that a thread without such a loop may run until it  *)
              (* sleeps: microseconds against a quantum of 20 ms           *)

Threads == Peer \cup Higher \cup {idle}

None == "nobody"

ASSUME SchedulerAssumption ==
  /\ Looping \subseteq Peer /\ Telling \subseteq Peer
  /\ idle \notin Peer \cup Higher /\ None \notin Threads
  /\ prio \in [Threads -> Nat \ {0}]
  /\ \A p, q \in Peer : prio[p] = prio[q] /\ prio[idle] < prio[p]
  /\ \A p \in Peer, h \in Higher : prio[p] < prio[h]
  /\ BURST \in Nat /\ CH_CFG_TIME_QUANTUM \in Nat
  /\ BURST < CH_CFG_TIME_QUANTUM

VARIABLES
  r_queue,      (* the ready list: threads in the order of their turns      *)
  currp,        (* that thread, or none while the kernel switches           *)
  p_preempt,    (* ticks that each thread has left of its quantum           *)
  kernel,       (* "thread": it runs; "exit": an interrupt is about to      *)
                (* return; "switch": the next thread is about to be picked  *)
  burst         (* history: the peer that was picked and has neither slept  *)
                (* nor gone behind the others since                         *)

schedulerVars == <<r_queue, currp, p_preempt, kernel, burst>>

Waiting(t) == t \in ToSet(r_queue)
Asleep(t) == t # currp /\ ~Waiting(t)

-----------------------------------------------------------------------------
(* The threads of a set in a list, in its order.                           *)
Only(list, S) ==
  LET taken[n \in 0 .. Len(list)] ==
        IF n = 0 THEN <<>>
        ELSE IF list[n] \in S THEN Append(taken[n - 1], list[n]) ELSE taken[n - 1]
  IN  taken[Len(list)]

(* The places of thread t in a list in order of priority: chSchReadyI puts *)
(* it behind all threads with higher or equal priority ...                 *)
Behind(t) ==
  Only(r_queue, {u \in Threads : prio[u] >= prio[t]}) \o <<t>>
    \o Only(r_queue, {u \in Threads : prio[u] < prio[t]})

(* ... and chSchDoRescheduleAhead ahead of those with equal priority.      *)
Ahead(t) ==
  Only(r_queue, {u \in Threads : prio[u] > prio[t]}) \o <<t>>
    \o Only(r_queue, {u \in Threads : prio[u] <= prio[t]})

chSchReadyI(t) == r_queue' = Behind(t)

(* The running thread makes room; if it is the peer whose burst is under   *)
(* way, that burst is over or goes on later.                               *)
MakesRoom == currp' = None /\ kernel' = "switch"
BurstOver == burst' = IF burst = currp THEN None ELSE burst

firstprio == IF r_queue = <<>> THEN 0 ELSE prio[Head(r_queue)]

(* Seeded fault: the quantum is not looked at. *)
chSchIsPreemptionRequired_higher == firstprio > prio[currp]

chSchIsPreemptionRequired ==
  IF p_preempt[currp] > 0 THEN firstprio > prio[currp] ELSE firstprio >= prio[currp]

-----------------------------------------------------------------------------
(* What the thread that runs may do.                                       *)

(* It sleeps, whatever it waits for.                                       *)
chSchGoSleepS ==
  /\ kernel = "thread" /\ currp # idle
  /\ p_preempt' = [p_preempt EXCEPT ![currp] = CH_CFG_TIME_QUANTUM]
  /\ MakesRoom /\ BurstOver
  /\ UNCHANGED r_queue

(* It wakes another one: chSemSignal, chThdResume, chThdCreateStatic,      *)
(* chMtxUnlock.  For one that is higher it goes behind its own peers, and  *)
(* keeps what it has left of its quantum.                                  *)
chSchWakeupS(t) ==
  /\ kernel = "thread" /\ currp # idle /\ Asleep(t) /\ t # idle
  /\ \/ /\ prio[t] <= prio[currp]
        /\ chSchReadyI(t)
        /\ UNCHANGED <<currp, burst>>
     \/ /\ prio[t] > prio[currp] /\ currp \in Telling
        /\ chSchReadyI(currp)
        /\ currp' = t
        /\ BurstOver
  /\ UNCHANGED <<p_preempt, kernel>>

(* It broadcasts a condition for which a higher thread waits               *)
(* (chCondBroadcast, then chSchRescheduleS): it stays ahead of its peers.  *)
chSchRescheduleS(t) ==
  /\ kernel = "thread" /\ currp \in Telling
  /\ Asleep(t) /\ prio[t] > prio[currp]
  /\ r_queue' = Ahead(currp)
  /\ currp' = t
  /\ UNCHANGED <<p_preempt, kernel, burst>>

-----------------------------------------------------------------------------
(* Interrupts.                                                             *)

WakesAtMostOne(threads) ==
  \/ UNCHANGED r_queue
  \/ \E t \in threads : Asleep(t) /\ chSchReadyI(t)

Bounded(t) == t \notin Looping \cup {idle}

(* chSysTimerHandlerI; a virtual timer that is due wakes its thread.  Of a *)
(* thread without a loop it takes no more than its burst.                  *)
chSysTimerHandlerI ==
  /\ kernel = "thread"
  /\ Bounded(currp) => CH_CFG_TIME_QUANTUM - p_preempt[currp] < BURST
  /\ p_preempt' = [p_preempt EXCEPT ![currp] = IF @ > 0 THEN @ - 1 ELSE 0]
  /\ WakesAtMostOne(Peer \cup Higher)
  /\ kernel' = "exit"
  /\ UNCHANGED <<currp, burst>>

(* The camera, the converter or another device wakes a peer.               *)
device_interrupt ==
  /\ kernel = "thread"
  /\ \E t \in Peer : Asleep(t) /\ chSchReadyI(t)
  /\ kernel' = "exit"
  /\ UNCHANGED <<currp, p_preempt, burst>>

(* chSchDoReschedule, up to the pick of the next thread.                   *)
chSchDoRescheduleBehind ==
  /\ p_preempt[currp] = 0
  /\ p_preempt' = [p_preempt EXCEPT ![currp] = CH_CFG_TIME_QUANTUM]
  /\ chSchReadyI(currp)
  /\ BurstOver

(* Seeded fault: a thread that is preempted goes behind its peers. *)
chSchDoRescheduleAhead_behind ==
  /\ p_preempt[currp] > 0
  /\ r_queue' = Behind(currp)
  /\ UNCHANGED <<p_preempt, burst>>

chSchDoRescheduleAhead ==
  /\ p_preempt[currp] > 0
  /\ r_queue' = Ahead(currp)
  /\ UNCHANGED <<p_preempt, burst>>

port_irq_epilogue ==
  /\ kernel = "exit"
  /\ \/ /\ ~chSchIsPreemptionRequired
        /\ kernel' = "thread"
        /\ UNCHANGED <<r_queue, currp, p_preempt, burst>>
     \/ /\ chSchIsPreemptionRequired
        /\ chSchDoRescheduleBehind \/ chSchDoRescheduleAhead
        /\ MakesRoom

(* setcurrp(queue_fifo_remove(&ch.rlist.r_queue)).                         *)
setcurrp ==
  /\ kernel = "switch"
  /\ currp' = Head(r_queue)
  /\ r_queue' = Tail(r_queue)
  /\ burst' = IF currp' \in Peer THEN currp' ELSE burst
  /\ kernel' = "thread"
  /\ UNCHANGED p_preempt

-----------------------------------------------------------------------------
(* All threads sleep on their timers, and the processor is idle.           *)
SchedulerInit ==
  /\ r_queue = <<>>
  /\ currp = idle
  /\ p_preempt = [t \in Threads |-> CH_CFG_TIME_QUANTUM]
  /\ kernel = "thread"
  /\ burst = None

Sleeps == Bounded(currp) /\ chSchGoSleepS
KernelGoesOn == port_irq_epilogue \/ setcurrp

SchedulerNext ==
  \/ chSchGoSleepS
  \/ \E t \in Threads : chSchWakeupS(t) \/ chSchRescheduleS(t)
  \/ chSysTimerHandlerI \/ device_interrupt
  \/ port_irq_epilogue \/ setcurrp

(* The timer goes on, what is bounded sleeps in the end, also if it is cut *)
(* again and again by those it wakes; a looping thread need never.         *)
SchedulerFairness ==
  /\ WF_schedulerVars(chSysTimerHandlerI)
  /\ WF_schedulerVars(Sleeps)
  /\ SF_schedulerVars(currp \in Telling /\ Sleeps)
  /\ WF_schedulerVars(KernelGoesOn)

SchedulerSpec == SchedulerInit /\ [][SchedulerNext]_schedulerVars /\ SchedulerFairness

-----------------------------------------------------------------------------
peersReady == Only(r_queue, Peer \ {burst})

TakingTurns == INSTANCE Peers WITH running <- burst, ready <- peersReady

(* Threads of one priority take turns as module Peers has it, however      *)
(* higher threads preempt them in between: a burst that is cut by these    *)
(* goes on before any peer does, and those that wake meanwhile queue up.   *)
(* Only a thread in a loop that does not sleep is ever put behind its      *)
(* peers, and one that has just woken a higher thread by chSchWakeupS.     *)
(* process_image.c:78-80 and the bursts of the missions rest on it.        *)
KeepsPeers ==
  [][ \/ TakingTurns!Dispatch
      \/ \E t \in Peer : TakingTurns!GoesOnWaking(t)
      \/ TakingTurns!Blocks
      \/ burst \in Looping \cup Telling /\ TakingTurns!BlocksWaking(<<burst>>)
    ]_<<burst, peersReady>>

(* Every peer that is ready gets the processor, although one of them loops *)
(* without ever sleeping (scan.c:106, tavern_phase of main.c): what the    *)
(* weak fairness of the threads in module Robot takes for granted.         *)
EveryPeerRuns == \A t \in Peer : Waiting(t) ~> currp = t
=============================================================================
