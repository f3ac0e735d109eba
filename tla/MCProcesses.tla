---------------------------- MODULE MCProcesses ----------------------------
(***************************************************************************)
(* Processes side by side with signal delivery: fork, exit and wait4 of up *)
(* to three processes, their exits masked or not, and kill, handlers and   *)
(* sigreturn of two.  `part` says which of the two a behaviour is about;   *)
(* the other stays as it was at the start.                                 *)
(***************************************************************************)
EXTENDS ProcLife

CONSTANTS SProcs, SFirst, Signums, SIGKILL, SIGTERM, SIGCHLD,  \* Signals
          Caught, MaxAt, MaxKills, HandlerCalls

VARIABLES part, proc, slot, steps, kills

sigvars == <<proc, slot, steps, kills>>

G == INSTANCE Signals WITH TidyExec <- TRUE, TidySleep <- TRUE

MCInit == part \in {"proc", "signals"} /\ Init /\ G!SInit

MCNext == /\ UNCHANGED part
          /\ \/ part = "proc" /\ Next /\ UNCHANGED sigvars
             \/ part = "signals" /\ G!SNext /\ UNCHANGED vars

MCFairness ==
  /\ \A p \in Pids : WF_vars(part = "proc" /\ (WaitStep(p) \/ ExitStep(p)))
  /\ \A p \in SProcs : /\ WF_sigvars(part = "signals" /\ G!Interrupt(p))
                       /\ WF_sigvars(part = "signals" /\ G!Sigreturn(p))
                       /\ WF_sigvars(part = "signals" /\ G!Wake(p))

MCSpec == MCInit /\ [][MCNext]_<<part, vars, sigvars>> /\ MCFairness

----------------------------------------------------------------------------
\* A pending SIGKILL ends the process, a handler that runs when it is raised
\* notwithstanding (check_and_deliver).
KillEnds == G!KillEnds
=============================================================================
