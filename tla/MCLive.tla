------------------------------- MODULE MCLive -------------------------------
(***************************************************************************)
(* The parts whose threads wait for one another, side by side: the         *)
(* keyboard's readers and its interrupt, the scheduler, a pipe with one    *)
(* thread at each end, and the shell running a pipeline.  `part` says      *)
(* which of them a behaviour is about; the others stay as they were at the *)
(* start.  Each part has the fairness its own module states.               *)
(***************************************************************************)
EXTENDS Keyboard, TLC

CONSTANTS Users, InitThread, kidle, NCpu, MLFQ_LEVELS, QUEUE_DEPTH,  \* Sched
          BOOST_INTERVAL, MAX_STEAL_BATCH,
          PipeReaders, PipeWriters, Capacity, PipeLens, MaxCalls,    \* Pipe
          shell, echo, cat, NFds, NPipes, RingCap, Words             \* Pipeline

VARIABLES part,
          current, run_queue, tick_count, steal_cursor, state, priority, ticks_used,
          sleepers, fpu, registers,
          fill, read_open, write_open, read_seq, write_seq, read_waiters, write_waiters,
          ppc, psnap, pwant, ret, calls,
          life, fds, closing, refs, made, failed, ring, asleep, prog, n, i, left, extra

schedvars == <<current, run_queue, tick_count, steal_cursor, state, priority, ticks_used,
               sleepers, fpu, registers>>
pipevars == <<fill, read_open, write_open, read_seq, write_seq, read_waiters,
              write_waiters, ppc, psnap, pwant, ret, calls>>
linevars == <<life, fds, closing, refs, made, failed, ring, asleep, prog, n, i, left, extra>>
all == <<part, vars, schedvars, pipevars, linevars>>

S == INSTANCE Sched WITH waiters <- sleepers
P == INSTANCE Pipe WITH Readers <- PipeReaders, Writers <- PipeWriters,
       Lens <- PipeLens, len <- fill, pc <- ppc, snap <- psnap, want <- pwant
L == INSTANCE Pipeline WITH Procs <- {shell, echo, cat}, First <- shell,
       Kids <- <<echo, cat>>, Users <- {shell}, Used <- {0}, TidyDup2 <- TRUE,
       Redirected <- {2}, state <- life, pc <- prog

MCInit == /\ part \in {"keyboard", "sched", "pipe", "pipeline"}
          /\ Init /\ S!Init /\ P!Init /\ L!PInit
          /\ part # "pipeline" => n = 1 /\ extra = 0

Only(p) ==
  /\ part = p /\ UNCHANGED part
  /\ p # "keyboard" => UNCHANGED vars
  /\ p # "sched" => UNCHANGED schedvars
  /\ p # "pipe" => UNCHANGED pipevars
  /\ p # "pipeline" => UNCHANGED linevars

\* The keyboard, the scheduler and the pipe may not stop; a pipeline that has
\* run may.
Rest == part = "pipeline" /\ UNCHANGED all

MCNext == \/ Only("keyboard") /\ Next
          \/ Only("sched") /\ S!Next
          \/ Only("pipe") /\ P!Next
          \/ Only("pipeline") /\ L!PNext
          \/ Rest

MCFairness ==
  /\ \A r \in Readers : /\ SF_vars(part = "keyboard" /\ Step(r))
                        /\ SF_vars(part = "keyboard" /\ Switch(r))
  /\ WF_vars(part = "keyboard" /\ Handler) /\ WF_vars(part = "keyboard" /\ TickIrq)
  /\ WF_vars(part = "keyboard" /\ \E t \in Readers \cup {Idle} : Switch(t))
  /\ WF_schedvars(part = "sched" /\ S!Tick)
  /\ \A r \in PipeReaders : WF_pipevars(part = "pipe" /\ P!ReaderStep(r))
  /\ \A w \in PipeWriters : WF_pipevars(part = "pipe" /\ P!WriterStep(w))
  /\ WF_linevars(part = "pipeline" /\ L!ShellStep)
  /\ \A c \in {echo, cat} : WF_linevars(part = "pipeline" /\ L!KidStep(c))

MCSpec == MCInit /\ [][MCNext]_all /\ MCFairness

----------------------------------------------------------------------------
\* Every thread is in exactly one place, the one its state names (schedule,
\* steal_into, boost_all and the wakes).
ThreadsAccounted == S!TypeOK /\ S!ThreadsAccounted

\* CPU 0 goes idle only when no CPU's run queue holds a thread (steal_into).
WorkConserving == S!WorkConserving

\* Every Runnable user thread gets CPU 0 again and again (the time slices, the
\* demotions and boost_all).
NoStarvation == part = "sched" => S!NoStarvation

\* A read returns once the last writer has closed or, for a lone reader, once
\* the ring holds data (pipe_read).
ReadReturns == P!ReadReturns

\* A write returns once the last reader has closed or, for a lone writer, once
\* the ring has room (pipe_write).
WriteReturns == P!WriteReturns

\* The shell's pipeline ends and the shell prompts again (execute_pipeline).
PipelineReturns == part = "pipeline" => L!PipelineReturns
=============================================================================
