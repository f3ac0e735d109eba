------------------------------- MODULE Signals -------------------------------
(***************************************************************************)
(* Signals (crates/proc/src/signal.rs) and the system calls that touch     *)
(* them (crates/proc/src/syscall.rs, fork.rs, exec.rs): pending sets,      *)
(* dispositions, the one saved context of a running handler, and delivery  *)
(* on every return to ring 3.  A process is a record; a system call        *)
(* computes the new records and ends in the delivery of its return path.   *)
(* The user context is the place in the program: how far the main program  *)
(* has come, or the handler that runs.  Entry to a system call             *)
(* (crates/cpu/src/syscall.rs) keeps it twice: on the kernel stack of the  *)
(* thread, and in the one slot of CPU 0 that every entry overwrites and    *)
(* delivery reads.                                                         *)
(***************************************************************************)
EXTENDS Integers, FiniteSets, FiniteSetsExt

CONSTANTS SProcs, SFirst, Signums, SIGKILL, SIGTERM, SIGCHLD,
          Caught,        \* the signals programs call sigaction for
          MaxAt,         \* bound: steps of a main program
          MaxKills,      \* bound: kill() calls
          HandlerCalls,  \* what handlers call besides sigreturn
          TidyExec,      \* execve only with nothing pending: it drops what is
          TidySleep      \* a process with a handler makes no blocking call

VARIABLES proc,    \* [st, parent, pend, act, frame, ctx, kctx, code]
          slot,    \* CURRENT_SYSCALL_FRAME of CPU 0
          steps,   \* history: steps of the main program since exec or fork
          kills

svars == <<proc, slot, steps, kills>>

Main(n)    == [where |-> "main", at |-> n]
Handler(s) == [where |-> "handler", at |-> s]
NoFrame    == [where |-> "none", at |-> 0]
Defaults   == [s \in Signums |-> "default"]

SInit ==
  /\ proc = [p \in SProcs |-> [st |-> IF p = SFirst THEN "run" ELSE "unborn", parent |-> SFirst,
                               pend |-> {}, act |-> Defaults, frame |-> NoFrame, ctx |-> Main(0), kctx |-> Main(0), code |-> 0]]
  /\ slot = Main(0)
  /\ steps = [p \in SProcs |-> 0]
  /\ kills = 0

(* ------------------------------ delivery ----------------------------- *)

\* PendingSet::raise
Raise(P, p, s) == [P EXCEPT ![p].pend = @ \cup {s}]

\* Process::exit: the status, and SIGCHLD for a parent that is alive
Exit(P, p, code) ==
  LET Q == [P EXCEPT ![p].st = "dead", ![p].code = code]
  IN IF Q[Q[p].parent].st \in {"run", "sleep"} THEN Raise(Q, Q[p].parent, SIGCHLD) ELSE Q

(* Mutant of Decide: SIGKILL goes through the dispositions like the others. *)
DecideNoKill(r, s) ==
  IF r.act[s] = "handler" THEN "deliver"
  ELSE IF r.act[s] = "default" /\ s = SIGTERM THEN "terminate" ELSE "none"

\* decide_next_signal for the signal take_any has removed
Decide(r, s) ==
  IF s = SIGKILL THEN "terminate"
  ELSE IF r.act[s] = "handler" THEN "deliver"
  ELSE IF r.act[s] = "default" /\ s = SIGTERM THEN "terminate" ELSE "none"

\* setup_and_enter_handler: the context is saved, the handler runs
Enter(P, p, s, saved) == [P EXCEPT ![p].frame = saved, ![p].ctx = Handler(s)]

(* Mutant of Deliver: the signal is taken before the frame is looked at. *)
DeliverTakesFirst(P, p, saved) ==
  IF P[p].st # "run" \/ P[p].pend = {} THEN P
  ELSE LET s == Min(P[p].pend)
           Q == [P EXCEPT ![p].pend = @ \ {s}]
       IN CASE P[p].frame # NoFrame -> Q
            [] Decide(Q[p], s) = "terminate" -> Exit(Q, p, -s)
            [] Decide(Q[p], s) = "deliver"   -> Enter(Q, p, s, saved)
            [] OTHER -> Q

\* deliver_on_syscall_return and check_and_deliver_iret: at most one signal,
\* the lowest, and none while a handler's frame is occupied
Deliver(P, p, saved) ==
  IF P[p].st # "run" \/ P[p].frame # NoFrame \/ P[p].pend = {} THEN P
  ELSE LET s == Min(P[p].pend)
           Q == [P EXCEPT ![p].pend = @ \ {s}]
       IN CASE Decide(Q[p], s) = "terminate" -> Exit(Q, p, -s)
            [] Decide(Q[p], s) = "deliver"   -> Enter(Q, p, s, saved)
            [] OTHER -> Q

(* ---------------------------- system calls --------------------------- *)

Runs(p) == proc[p].st = "run"
MayCall(p, call) == Runs(p) /\ (proc[p].ctx.where = "handler" => call \in HandlerCalls)

\* deliver_on_syscall_return: the context to save is what the slot holds
OnSyscallReturn(P, p, slotNow) == Deliver(P, p, slotNow)

\* syscall_entry to syscall_dispatch and its return hook, for a call that does
\* not sleep: nobody else enters before the hook reads the slot
Return(p, P) == slot' = proc[p].ctx /\ proc' = OnSyscallReturn(P, p, slot')

\* a blocking call: the context is on the thread's kernel stack and in the slot
Sleep(p) ==
  /\ MayCall(p, "sleep")
  /\ TidySleep => \A s \in Signums : proc[p].act[s] # "handler"
  /\ proc' = [proc EXCEPT ![p].st = "sleep", ![p].kctx = proc[p].ctx]
  /\ slot' = proc[p].ctx
  /\ UNCHANGED <<steps, kills>>

(* Mutant of Wake: sysretq takes the user stack from the CPU's slot. *)
WakeFromSlot(p) ==
  /\ proc[p].st = "sleep"
  /\ proc' = OnSyscallReturn([proc EXCEPT ![p].st = "run", ![p].ctx = slot], p, slot)
  /\ UNCHANGED <<slot, steps, kills>>

\* the call returns: the hook reads whatever the slot holds by now, sysretq the
\* thread's own stack
Wake(p) ==
  /\ proc[p].st = "sleep"
  /\ proc' = OnSyscallReturn([proc EXCEPT ![p].st = "run", ![p].ctx = proc[p].kctx, ![p].kctx = Main(0)], p, slot)
  /\ UNCHANGED <<slot, steps, kills>>

\* sys_sigaction: not SIGKILL (signal_is_catchable)
Sigaction(p, s, a) ==
  /\ MayCall(p, "sigaction") /\ s # SIGKILL
  /\ Return(p, [proc EXCEPT ![p].act[s] = a])
  /\ UNCHANGED <<steps, kills>>

\* sys_kill of a process that ptable still finds
Kill(p, q, s) ==
  /\ MayCall(p, "kill") /\ proc[q].st # "unborn" /\ kills < MaxKills
  /\ kills' = kills + 1
  /\ Return(p, Raise(proc, q, s))
  /\ UNCHANGED steps

\* sys_sigreturn: back to the saved context without a delivery of its own;
\* without a frame the process is killed
Sigreturn(p) ==
  /\ Runs(p) /\ proc[p].ctx.where = "handler"
  /\ proc' = IF proc[p].frame = NoFrame THEN Exit(proc, p, -SIGKILL)
             ELSE [proc EXCEPT ![p].ctx = proc[p].frame, ![p].frame = NoFrame]
  /\ slot' = proc[p].ctx
  /\ UNCHANGED <<steps, kills>>

\* sys_fork and sys_clone: dispositions are copied, nothing is pending and no
\* handler is in flight, wherever the parent was
SigFork(p, q) ==
  /\ MayCall(p, "fork") /\ proc[q].st = "unborn"
  /\ Return(p, [proc EXCEPT ![q] = [proc[p] EXCEPT !.parent = p, !.pend = {}, !.frame = NoFrame]])
  /\ steps' = [steps EXCEPT ![q] = steps[p]]
  /\ UNCHANGED kills

\* do_execve: phase 1 may fail and leaves the caller as it is; phase 2 resets
\* everything about signals and enters the new image directly
ExecveFails(p) == MayCall(p, "execve") /\ Return(p, proc) /\ UNCHANGED <<steps, kills>>

Execve(p) ==
  /\ MayCall(p, "execve") /\ (TidyExec => proc[p].pend = {})
  /\ proc' = [proc EXCEPT ![p].act = Defaults, ![p].frame = NoFrame, ![p].pend = {}, ![p].ctx = Main(0)]
  /\ slot' = proc[p].ctx
  /\ steps' = [steps EXCEPT ![p] = 0]
  /\ UNCHANGED kills

SysExit(p) ==
  /\ MayCall(p, "exit") /\ proc' = Exit(proc, p, 0)
  /\ slot' = proc[p].ctx /\ UNCHANGED <<steps, kills>>

\* an instruction of the main program
UserStep(p) ==
  /\ Runs(p) /\ proc[p].ctx.where = "main" /\ proc[p].ctx.at < MaxAt
  /\ proc' = [proc EXCEPT ![p].ctx.at = @ + 1]
  /\ steps' = [steps EXCEPT ![p] = @ + 1]
  /\ UNCHANGED <<slot, kills>>

\* rust_interrupt_dispatch for an interrupt taken in ring 3: its frame holds the
\* user context, and returns through the same delivery
Interrupt(p) ==
  /\ Runs(p) /\ proc' = Deliver(proc, p, proc[p].ctx) /\ proc' # proc
  /\ UNCHANGED <<slot, steps, kills>>

SNext ==
  \E p \in SProcs :
    \/ UserStep(p) \/ Interrupt(p) \/ Sleep(p) \/ Wake(p) \/ Sigreturn(p) \/ SysExit(p) \/ Execve(p) \/ ExecveFails(p)
    \/ \E s \in Caught, a \in {"default", "ignore", "handler"} : Sigaction(p, s, a)
    \/ \E q \in SProcs : SigFork(p, q) \/ \E s \in Signums : Kill(p, q, s)

\* the timer interrupts user code again and again, handlers end, and what a
\* blocking call waits for comes (kill itself wakes no sleeper)
SFairness == \A p \in SProcs : WF_svars(Interrupt(p)) /\ WF_svars(Sigreturn(p)) /\ WF_svars(Wake(p))

SSpec == SInit /\ [][SNext]_svars /\ SFairness

(* ---------------------------- properties ---------------------------- *)

\* A program resumes exactly where a signal interrupted it: its main context
\* is as far as its own steps, and so are the context saved for a handler and
\* the one a sleeping call returns to, whoever entered the kernel meanwhile.
\* Delivery never overwrites a saved context ("a second delivery would
\* overwrite its saved context and corrupt sigreturn").
ContextKept ==
  \A p \in SProcs : proc[p].st = "run" =>
    /\ proc[p].ctx.where = "main" => proc[p].ctx = Main(steps[p]) /\ proc[p].frame = NoFrame
    /\ proc[p].frame # NoFrame => proc[p].frame = Main(steps[p])

\* A pending SIGKILL ends the process, though handlers of lower signals may
\* run first, a running handler is waited for, and so is a blocking call.
KillEnds == \A p \in SProcs : (SIGKILL \in proc[p].pend) ~> (proc[p].st = "dead")

\* No signal is lost: a pending one stays pending until a return to ring 3
\* takes it, the lowest first and never while a handler's frame is occupied, and
\* then its handler runs (or the image is replaced or the process ends).
SignalsKeptStep ==
  \A p \in SProcs : \A s \in proc[p].pend :
    (proc'[p].st = "run" /\ s \notin proc'[p].pend) =>
       \/ /\ s = Min(proc[p].pend) /\ s # SIGKILL /\ proc[p].frame = NoFrame
          /\ proc'[p].act[s] = "handler" => proc'[p].ctx = Handler(s)
       \/ proc'[p].act = Defaults /\ proc'[p].ctx = Main(0)

\* No step of the system loses a pending signal.
SignalsKept == [][SignalsKeptStep]_svars
=============================================================================
