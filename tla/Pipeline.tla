------------------------------ MODULE Pipeline ------------------------------
(***************************************************************************)
(* The shell running one pipeline (userspace/shell/src/exec.rs) with       *)
(* /bin/echo and /bin/cat as its stages, on the descriptors and pipes of   *)
(* module Descriptors: every system call a program makes is an action of   *)
(* that module joined with the program's next step.                        *)
(***************************************************************************)
EXTENDS Descriptors

CONSTANTS Kids,   \* the children, in stage order: Procs is First and Kids
          Words,  \* units an echo writes
          Redirected   \* stages with a redirection

VARIABLES pc, n, i, left, extra

progvars == <<pc, n, i, left, extra>>
pvars == <<dvars, progvars>>

N == Len(Kids)
Stage(c) == CHOOSE s \in 1..N : Kids[s] = c

\* descriptors of pipe k as the shell's pipe() calls returned them
Rd(k) == 3 + extra + 2 * (k - 1)
Wr(k) == Rd(k) + 1
Plumbing == [j \in 1..(2 * (n - 1)) |-> IF j % 2 = 1 THEN Rd((j + 1) \div 2) ELSE Wr(j \div 2)]

PInit ==
  /\ extra \in {0, 1} /\ DInit(3 + extra)
  /\ n \in 1..N
  /\ pc = [p \in Procs |-> IF p = First THEN "pipe" ELSE "setup"]
  /\ i = 0
  /\ left = [p \in Procs |-> 0]

Goto(p, l) == pc' = [pc EXCEPT ![p] = l]

(* ----------------------------- the shell ----------------------------- *)

MakePipe ==
  /\ pc[First] = "pipe"
  /\ IF i = n - 1
       THEN /\ Goto(First, "fork") /\ i' = 0 /\ UNCHANGED dvars
       ELSE /\ SysPipe(First)
            /\ IF failed' = failed
                 THEN i' = i + 1 /\ UNCHANGED pc
                 ELSE Goto(First, "rollback") /\ UNCHANGED i
  /\ UNCHANGED <<n, left, extra>>

\* pipe() failed: close the pipes made so far and give up
Rollback ==
  /\ pc[First] = "rollback"
  /\ \/ /\ \E j \in 1..(2 * i) :
             /\ Close(First, Plumbing[j])
             /\ \A g \in 1..(j - 1) : fds[First][Plumbing[g]] = 0
        /\ UNCHANGED pc
     \/ /\ \A j \in 1..(2 * i) : fds[First][Plumbing[j]] = 0
        /\ Ready(First) /\ Goto(First, "done") /\ UNCHANGED dvars
  /\ UNCHANGED <<n, i, left, extra>>

\* fork every stage; a failing fork ends the loop
ForkStage ==
  /\ pc[First] = "fork"
  /\ \/ /\ i < n
        /\ Fork(First, Kids[i + 1])
        /\ i' = i + 1 /\ UNCHANGED pc
     \/ Ready(First) /\ Goto(First, "close") /\ UNCHANGED <<dvars, i>>
  /\ UNCHANGED <<n, left, extra>>

(* Mutant of CloseAll: the write ends stay open. *)
CloseReadEnds(p, next) ==
  /\ pc[p] = "close"
  /\ \/ \E j \in {x \in DOMAIN Plumbing : x % 2 = 1} : Close(p, Plumbing[j]) /\ UNCHANGED pc
     \/ /\ \A j \in {x \in DOMAIN Plumbing : x % 2 = 1} : fds[p][Plumbing[j]] = 0
        /\ Ready(p) /\ Goto(p, next) /\ UNCHANGED dvars
  /\ UNCHANGED <<n, i, left, extra>>

\* close every pipe descriptor, in order
CloseAll(p, next) ==
  /\ pc[p] = "close"
  /\ \/ /\ \E j \in DOMAIN Plumbing :
             Close(p, Plumbing[j]) /\ \A g \in 1..(j - 1) : fds[p][Plumbing[g]] = 0
        /\ UNCHANGED pc
     \/ /\ \A j \in DOMAIN Plumbing : fds[p][Plumbing[j]] = 0
        /\ Ready(p) /\ Goto(p, next) /\ UNCHANGED dvars
  /\ UNCHANGED <<n, i, left, extra>>

\* wait4(-1) once for each child forked
Wait ==
  /\ pc[First] = "wait"
  /\ \/ \E q \in Procs :
          /\ state[q] = "zombie" /\ state' = [state EXCEPT ![q] = "reaped"]
          /\ i' = i - 1 /\ UNCHANGED pc
     \/ i = 0 /\ Goto(First, "done") /\ UNCHANGED <<state, i>>
  /\ UNCHANGED <<fds, closing, refs, made, failed, ring, asleep, n, left, extra>>

(* ----------------------- a stage before its exec --------------------- *)

\* dup2 of the pipes onto 0 and 1
Setup(c) ==
  /\ pc[c] = "setup" /\ Ready(c)
  /\ IF Stage(c) > 1 THEN Dup2(c, Rd(Stage(c) - 1), 0) ELSE UNCHANGED dvars
  /\ Goto(c, "out")
  /\ UNCHANGED <<n, i, left, extra>>

SetupOut(c) ==
  /\ pc[c] = "out" /\ Ready(c)
  /\ IF Stage(c) < n THEN Dup2(c, Wr(Stage(c)), 1) ELSE UNCHANGED dvars
  /\ Goto(c, "in")
  /\ UNCHANGED <<n, i, left, extra>>

\* "< file", then "> file": open, dup2 onto 0 or 1, close; a failing open
\* ends the stage.  Only pipes matter here: a file is any other descriptor.
Redirect(c, from, d, next) ==
  /\ pc[c] = from
  /\ \/ Ready(c) /\ Goto(c, next) /\ UNCHANGED dvars
     \/ Stage(c) \in Redirected /\ Exit(c) /\ Goto(c, "over")
     \/ Stage(c) \in Redirected /\ Dup2(c, 2, d) /\ Goto(c, next)
  /\ UNCHANGED <<n, i, left, extra>>

\* execve; a program that is not there ends the stage
Exec(c) ==
  /\ pc[c] = "exec" /\ Ready(c)
  /\ \/ Exit(c) /\ Goto(c, "over") /\ UNCHANGED left
     \/ Goto(c, "echo") /\ left' = [left EXCEPT ![c] = Words] /\ UNCHANGED dvars
     \/ Stage(c) > 1 /\ Goto(c, "cat") /\ UNCHANGED <<dvars, left>>
  /\ UNCHANGED <<n, i, extra>>

(* ------------------------------ programs ----------------------------- *)

Put(c, k) == left' = [left EXCEPT ![c] = @ - (ring'[k] - ring[k])] /\ left'[c] >= 0

\* write_all(STDOUT): all units, until an error
Output(c) ==
  \/ /\ left[c] > 0 /\ fds[c][1] = Dev /\ Ready(c)
     /\ left' = [left EXCEPT ![c] = 0] /\ UNCHANGED <<dvars, pc>>
  \/ left[c] > 0 /\ Write(c, 1) /\ Put(c, PipeOf(fds[c][1])) /\ UNCHANGED pc
  \/ left[c] > 0 /\ WriteSleep(c, 1) /\ UNCHANGED <<pc, left>>
  \/ left[c] > 0 /\ AtEpipe(c, 1) /\ Exit(c) /\ Goto(c, "over") /\ UNCHANGED left

Echo(c) ==
  /\ pc[c] = "echo"
  /\ Output(c) \/ (left[c] = 0 /\ Exit(c) /\ Goto(c, "over") /\ UNCHANGED left)
  /\ UNCHANGED <<n, i, extra>>

\* cat_fd: read, write all of it, until end of file
Cat(c) ==
  /\ pc[c] = "cat"
  /\ \/ Output(c)
     \/ /\ left[c] = 0 /\ Read(c, 0)
        /\ left' = [left EXCEPT ![c] = ring[PipeOf(fds[c][0])] - ring'[PipeOf(fds[c][0])]]
        /\ UNCHANGED pc
     \/ left[c] = 0 /\ ReadSleep(c, 0) /\ UNCHANGED <<pc, left>>
     \/ /\ left[c] = 0 /\ (AtEof(c, 0) \/ fds[c][0] = Dev)
        /\ Exit(c) /\ Goto(c, "over") /\ UNCHANGED left
  /\ UNCHANGED <<n, i, extra>>

\* a system call in progress is finished first: user threads share CPU 0
\* and system calls run with interrupts off
Kernel(p) == (Release(p) \/ BecomeZombie(p)) /\ UNCHANGED progvars
Undisturbed(p) == \A q \in Procs \ {p} : Released(q)

ShellStep == /\ Undisturbed(First)
             /\ MakePipe \/ Rollback \/ ForkStage \/ CloseAll(First, "wait") \/ Wait \/ Kernel(First)

KidStep(c) == /\ Undisturbed(c) /\ state[c] \in {"live", "exiting"}
              /\ \/ Setup(c) \/ SetupOut(c)
                 \/ Redirect(c, "in", 0, "out2") \/ Redirect(c, "out2", 1, "close")
                 \/ CloseAll(c, "exec") \/ Exec(c) \/ Echo(c) \/ Cat(c) \/ Kernel(c)

PNext == ShellStep \/ \E s \in 1..N : KidStep(Kids[s])

PFairness == WF_pvars(ShellStep) /\ \A s \in 1..N : WF_pvars(KidStep(Kids[s]))

(* ---------------------------- properties ---------------------------- *)

PSpec == PInit /\ [][PNext]_pvars /\ PFairness

\* The pipeline ends: with every descriptor of every pipe closed by the
\* shell and by each stage, each reader gets its end of file or its writer
\* EPIPE, whichever stages fail, and the shell's wait4 calls return.
PipelineReturns == <>(pc[First] = "done")

\* When the shell prompts again nothing of the pipeline is left: no child
\* that has not been reaped and no descriptor of a pipe in the shell.
NothingLeft ==
  pc[First] = "done" => /\ \A p \in Procs \ {First} : state[p] \in {"unborn", "reaped"}
                        /\ \A d \in Fds : fds[First][d] \notin Ends
=============================================================================
