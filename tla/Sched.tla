------------------------------- MODULE Sched -------------------------------
(***************************************************************************)
(* The scheduler, crates/sched: schedule, schedule_yield, try_steal and    *)
(* charge_tick, driven by what calls them: the timer tick, thread_block_if,*)
(* Process::exit, kidle's thread_yield, and the wakes and enqueues that    *)
(* feed the run queues.                                                    *)
(*                                                                         *)
(* Every thread runs on CPU 0: enqueue_thread and try_make_runnable push   *)
(* there, only CPU 0 has a timer, and the other CPUs sit in idle_loop with *)
(* nobody sending them the reschedule IPI.  Their run queues exist all the *)
(* same: spawn puts kidle on the least loaded one, and CPU 0 steals from   *)
(* them.  Each call runs with interrupts off from its first shared access  *)
(* to the switch, so each is one step.                                     *)
(***************************************************************************)
EXTENDS Naturals, FiniteSets, RunQueue, WaitQueue

CONSTANTS
  Users,           \* threads of processes
  InitThread,      \* the thread of the init process
  kidle,           \* the kernel thread that yields forever
  Idle,            \* a CPU's idle thread
  NCpu,            \* cpu_count()
  BOOST_INTERVAL,
  MAX_STEAL_BATCH

\* register_process admits 64 processes, so the threads fit one level: the
\* instances keep Cardinality(Users) + 1 below QUEUE_DEPTH.

Threads == Users \cup {kidle}
Cpus == 0..(NCpu - 1)
Bsp == 0

VARIABLES
  current,         \* SchedCpu.current, by CPU
  run_queue,       \* SchedCpu.run_queue, by CPU
  tick_count,      \* CPU 0's SchedCpu.tick_count, modulo BOOST_INTERVAL
  steal_cursor,    \* CPU 0's SchedCpu.steal_cursor
  state,           \* Thread.state; "New" before its creation
  priority,        \* Thread.priority
  ticks_used,      \* Thread.ticks_used
  waiters,         \* the wait queue the users block on
  fpu,             \* Thread.fpu: the thread whose registers the area holds
  registers        \* CPU 0's x87/SSE registers: the thread they belong to

vars == <<current, run_queue, tick_count, steal_cursor, state, priority, ticks_used,
          waiters, fpu, registers>>

(* least_loaded_cpu *)
LeastLoaded(queues) ==
  CHOOSE c \in Cpus : \A d \in Cpus :
    QueueLen(queues[c]) < QueueLen(queues[d]) \/ (QueueLen(queues[c]) = QueueLen(queues[d]) /\ c <= d)

(* Boot: set_idle_thread on every CPU, enqueue_thread of init, spawn of kidle. *)
Init ==
  /\ current = [c \in Cpus |-> Idle]
  /\ LET q == [[c \in Cpus |-> EmptyQueue] EXCEPT ![Bsp] = Push(@, InitThread, 0)]
     IN  run_queue = [q EXCEPT ![LeastLoaded(q)] = Push(@, kidle, 0)]
  /\ tick_count = 0
  /\ steal_cursor = 1
  /\ state = [t \in Threads |-> IF t \in {InitThread, kidle} THEN "Runnable" ELSE "New"]
  /\ priority = [t \in Threads |-> 0]
  /\ ticks_used = [t \in Threads |-> 0]
  /\ waiters = << >>
  /\ fpu = [t \in Threads \cup {Idle} |-> t]
  /\ registers = Idle
-----------------------------------------------------------------------------
(* try_steal: scan the other CPUs once, from the cursor on, and take half of  *)
(* the first queue that is not empty.                                         *)

Victim(i) == (steal_cursor + i) % NCpu

StealBatch(n) ==
  LET half == IF n \div 2 > 1 THEN n \div 2 ELSE 1
  IN  IF half < MAX_STEAL_BATCH THEN half ELSE MAX_STEAL_BATCH

(* Mutant of TrySteal: a CPU keeps a lone thread (the old threshold of two). *)
TryStealPairs(queues, prio) ==
  LET hits == {i \in 0..(NCpu - 1) : Victim(i) # Bsp /\ QueueLen(queues[Victim(i)]) >= 2}
      i == CHOOSE j \in hits : \A k \in hits : j <= k
      v == Victim(i)
      s == StealInto(queues[v], queues[Bsp], StealBatch(QueueLen(queues[v])), prio)
  IN  IF NCpu = 1 \/ hits = {} THEN [queues |-> queues, cursor |-> steal_cursor]
      ELSE [queues |-> [queues EXCEPT ![v] = s.src, ![Bsp] = s.dst], cursor |-> (v + 1) % NCpu]

(* The result: the run queues, and the cursor after the scan. *)
TrySteal(queues, prio) ==
  LET hits == {i \in 0..(NCpu - 1) : Victim(i) # Bsp /\ QueueLen(queues[Victim(i)]) >= 1}
      i == CHOOSE j \in hits : \A k \in hits : j <= k
      v == Victim(i)
      s == StealInto(queues[v], queues[Bsp], StealBatch(QueueLen(queues[v])), prio)
  IN  IF NCpu = 1 THEN [queues |-> queues, cursor |-> steal_cursor]
      ELSE IF hits = {}
      THEN [queues |-> queues,
            cursor |-> IF Victim(NCpu - 1) = Bsp THEN Bsp ELSE steal_cursor % NCpu]
      ELSE [queues |-> [queues EXCEPT ![v] = s.src, ![Bsp] = s.dst], cursor |-> (v + 1) % NCpu]

(* The second half of schedule and of schedule_yield: pop, or steal and pop, *)
(* or idle; and the switch, which moves the registers when saveFpu.          *)
SwitchTo(queue, st, prio, saveFpu) ==
  \E found \in {IF Queued(queue) # {}
                  THEN [queues |-> [run_queue EXCEPT ![Bsp] = queue], cursor |-> steal_cursor]
                  ELSE TrySteal([run_queue EXCEPT ![Bsp] = queue], prio)} :
    LET ready == found.queues[Bsp]
        next  == IF Queued(ready) # {} THEN First(ready) ELSE Idle
        cur   == current[Bsp]
    IN  /\ run_queue' = IF next = Idle THEN found.queues ELSE [found.queues EXCEPT ![Bsp] = Rest(@)]
        /\ steal_cursor' = found.cursor
        /\ current' = [current EXCEPT ![Bsp] = next]
        /\ state' = IF next = Idle THEN st ELSE [st EXCEPT ![next] = "Running"]
        /\ IF saveFpu /\ next # cur
             THEN fpu' = [fpu EXCEPT ![cur] = registers] /\ registers' = fpu[next]
             ELSE UNCHANGED <<fpu, registers>>

(* charge_tick: does the time slice end, and at which priority? *)
SliceEnds(prio, used, t) == used[t] + 1 >= timeslice(prio[t])

Demoted(prio, t) == IF prio[t] < MLFQ_LEVELS - 1 THEN prio[t] + 1 ELSE prio[t]

(* schedule(0), called when the thread states are st: the boost, what becomes *)
(* of the current thread, and the switch.                                     *)
Schedule(st) ==
  LET cur   == current[Bsp]
      boost == (tick_count + 1) % BOOST_INTERVAL = 0
      reset == IF boost THEN Boosted(run_queue[Bsp]) ELSE {}
  IN
  \E queue \in {IF boost THEN BoostAll(run_queue[Bsp]) ELSE run_queue[Bsp]},
     prio  \in {[t \in Threads |-> IF t \in reset THEN 0 ELSE priority[t]]},
     used  \in {[t \in Threads |-> IF t \in reset THEN 0 ELSE ticks_used[t]]} :
    /\ tick_count' = (tick_count + 1) % BOOST_INTERVAL
    /\ \/ /\ cur = Idle
          /\ priority' = prio /\ ticks_used' = used
          /\ SwitchTo(queue, st, prio, TRUE)
       \/ /\ cur # Idle /\ st[cur] = "Running" /\ ~SliceEnds(prio, used, cur)
          /\ ticks_used' = [used EXCEPT ![cur] = @ + 1] /\ priority' = prio
          /\ run_queue' = [run_queue EXCEPT ![Bsp] = queue]
          /\ state' = st
          /\ UNCHANGED <<current, steal_cursor, fpu, registers>>
       \/ /\ cur # Idle /\ st[cur] = "Running" /\ SliceEnds(prio, used, cur)
          /\ ticks_used' = [used EXCEPT ![cur] = 0]
          /\ priority' = [prio EXCEPT ![cur] = Demoted(prio, cur)]
          /\ SwitchTo(Push(queue, cur, Demoted(prio, cur)),
                      [st EXCEPT ![cur] = "Runnable"], prio, TRUE)
       \/ /\ cur # Idle /\ st[cur] \in {"Blocked", "Dead"}
          /\ ticks_used' = [used EXCEPT ![cur] = 0] /\ priority' = prio
          /\ SwitchTo(queue, st, prio, TRUE)

-----------------------------------------------------------------------------
(* timer_handler *)
Tick == Schedule(state) /\ UNCHANGED waiters

(* Mutant of Block: the thread stays Running. *)
BlockUnmarked ==
  /\ current[Bsp] \in Users
  /\ waiters' = Enqueue(waiters, current[Bsp])
  /\ Schedule(state)

(* thread_block_if whose predicate holds: enqueue_raw, Blocked, schedule. *)
Block ==
  /\ current[Bsp] \in Users
  /\ waiters' = Enqueue(waiters, current[Bsp])
  /\ Schedule([state EXCEPT ![current[Bsp]] = "Blocked"])

(* Process::exit: Dead, schedule. *)
Exit ==
  /\ current[Bsp] \in Users
  /\ Schedule([state EXCEPT ![current[Bsp]] = "Dead"])
  /\ UNCHANGED waiters

(* schedule_yield, by kidle *)
Yield ==
  /\ current[Bsp] = kidle
  /\ ticks_used' = [ticks_used EXCEPT ![kidle] = 0]
  /\ SwitchTo(Push(run_queue[Bsp], kidle, priority[kidle]),
              [state EXCEPT ![kidle] = "Runnable"], priority, FALSE)
  /\ UNCHANGED <<tick_count, priority, waiters>>

(* Mutant of Wake: the woken thread is Runnable but in no run queue. *)
WakeUnqueued ==
  /\ waiters # << >>
  /\ LET t == Head(waiters) IN
       /\ HasRoom(run_queue[Bsp], priority[t])
       /\ waiters' = Tail(waiters)
       /\ state' = [state EXCEPT ![t] = "Runnable"]
  /\ UNCHANGED <<current, run_queue, tick_count, steal_cursor, priority, ticks_used, fpu, registers>>

(* wake_one, by a thread or by an interrupt handler: the first waiter with a *)
(* free slot at its level becomes Runnable on CPU 0.                         *)
Wake ==
  /\ waiters # << >>
  /\ LET t == Head(waiters) IN
       /\ HasRoom(run_queue[Bsp], priority[t])
       /\ waiters' = Tail(waiters)
       /\ state' = [state EXCEPT ![t] = "Runnable"]
       /\ run_queue' = [run_queue EXCEPT ![Bsp] = Push(@, t, priority[t])]
  /\ UNCHANGED <<current, tick_count, steal_cursor, priority, ticks_used, fpu, registers>>

(* sys_fork: a new thread of priority 0, enqueue_thread at level 0. *)
Fork ==
  /\ current[Bsp] \in Users
  /\ \E t \in Users :
       /\ state[t] = "New"
       /\ state' = [state EXCEPT ![t] = "Runnable"]
       /\ run_queue' = [run_queue EXCEPT ![Bsp] = Push(@, t, 0)]
  /\ UNCHANGED <<current, tick_count, steal_cursor, priority, ticks_used, waiters, fpu, registers>>

Next == Tick \/ Block \/ Exit \/ Yield \/ Wake \/ Fork

Spec == Init /\ [][Next]_vars

(* The timer re-arms itself in its handler, so ticks keep coming. *)
FairSpec == Spec /\ WF_vars(Tick)
-----------------------------------------------------------------------------
(* Properties *)

(* The type of the state. *)
TypeOK ==
  /\ current \in [Cpus -> Threads \cup {Idle}]
  /\ \A c \in Cpus : DOMAIN run_queue[c] = Levels /\ Queued(run_queue[c]) \subseteq Threads
  /\ tick_count \in 0..(BOOST_INTERVAL - 1)
  /\ steal_cursor \in Nat
  /\ state \in [Threads -> {"New", "Runnable", "Running", "Blocked", "Dead"}]
  /\ priority \in [Threads -> Levels]
  /\ \A t \in Threads : ticks_used[t] < timeslice(priority[t])
  /\ Waiting(waiters) \subseteq Users
  /\ fpu \in [Threads \cup {Idle} -> Threads \cup {Idle}]
  /\ registers \in Threads \cup {Idle}

(* How often t is in the run queues. *)
Entries(t) ==
  Cardinality({e \in Cpus \X Levels \X (1..(QUEUE_DEPTH - 1)) :
                 e[3] <= Len(run_queue[e[1]][e[2]]) /\ run_queue[e[1]][e[2]][e[3]] = t})

(* Every thread is in exactly one place, the one its state names (schedule,   *)
(* steal_into, boost_all and the wakes neither lose nor duplicate a thread):  *)
(* a Runnable thread has one run-queue entry, at the level of its priority,   *)
(* and is not running; a Running one is current on one CPU and not queued; a  *)
(* Blocked one is in its wait queue only; a Dead one is nowhere.              *)
ThreadsAccounted ==
  \A t \in Threads :
    LET running == {c \in Cpus : current[c] = t} IN
    /\ Entries(t) = IF state[t] = "Runnable" THEN 1 ELSE 0
    /\ \A c \in Cpus, l \in Levels : \A i \in 1..Len(run_queue[c][l]) :
         run_queue[c][l][i] = t => priority[t] = l
    /\ Cardinality(running) = IF state[t] = "Running" THEN 1 ELSE 0
    /\ t \in Waiting(waiters) <=> state[t] = "Blocked"

(* "An idle CPU pulling one waiting thread is strictly better than both      *)
(* sitting idle" (steal.rs:33-34): CPU 0 goes idle only when no CPU's run    *)
(* queue holds a thread.                                                     *)
WorkConserving ==
  [][(current'[Bsp] = Idle /\ current[Bsp] # Idle) => \A c \in Cpus : Queued(run_queue'[c]) = {}]_vars

(* No user thread starves: the time slices, the demotions and the boost give *)
(* every Runnable thread CPU 0 again and again, whatever the others do.      *)
NoStarvation ==
  \A t \in Users : state[t] = "Runnable" ~> current[Bsp] = t

(* "Extended (x87/SSE) state, saved/restored eagerly on every context switch" *)
(* (thread.rs:92): the registers of CPU 0 are those of the user thread that   *)
(* runs on it.                                                                *)
FpuPreserved == current[Bsp] \in Users => registers = current[Bsp]
=============================================================================
