------------------------------ MODULE ProcLife ------------------------------
(***************************************************************************)
(* The life of a process in crates/proc: sys_fork, Process::exit,          *)
(* sys_wait4 with find_zombie and reap_zombie, and the two tables that     *)
(* name processes (ptable by pid, PROCESS_TABLE by thread).                *)
(*                                                                         *)
(* Every process has one thread, which also is its only waiter: a parent's *)
(* wait_queue never holds anyone but the parent.  fork is one step: the    *)
(* child cannot run, and nobody can name it, before its last action.  exit *)
(* and wait4 are cut at every access to state another process touches.     *)
(*                                                                         *)
(* A syscall handler starts with interrupts off, and user threads run on   *)
(* the boot CPU only (enqueue_thread), so such an exit runs from its first *)
(* store to its last schedule without another process in between: it is    *)
(* masked.  But thread_block_if turns interrupts on, and a handler that    *)
(* has slept once runs preemptible from there on; a signal that terminates *)
(* the process at the end of such a call runs an exit that is not masked.  *)
(* Each exit is of one kind or of the other.                               *)
(***************************************************************************)
EXTENDS Naturals, FiniteSets, WaitQueue

CONSTANTS
  MaxPid,          \* bound: pids 1..MaxPid are ever allocated
  MaxChildren,     \* MAX_CHILDREN
  PtableCap,       \* PTABLE_BUCKET_CAP, all pids sharing one bucket
  Codes            \* exit codes a process passes to exit

ASSUME ProcLifeAssumption ==
  /\ MaxPid \in Nat \ {0}
  /\ MaxChildren \in Nat
  /\ PtableCap \in Nat
  /\ Codes \subseteq Nat

Pids == 1..MaxPid
Any == 0         \* wait4's pid argument -1 or 0, and the parent_pid of pid 1

VARIABLES
  next_pid,        \* NEXT_PID
  state,           \* Process.state; "none" before fork, "freed" after the frame is freed
  parent_pid,      \* Process.parent_pid
  children,        \* Process.children, the set of its non-zero slots
  child_count,     \* Process.child_count
  exit_code,       \* Process.exit_code
  child_exit_seq,  \* Process.child_exit_seq
  wait_queue,      \* Process.wait_queue
  sigchld,         \* processes with SIGCHLD in Process.pending
  ptable,          \* pids in ptable
  registered,      \* processes in PROCESS_TABLE
  pc,              \* where each process's thread is
  target,          \* wait4: its pid argument
  nohang,          \* wait4: WNOHANG
  snap,            \* wait4: seen_seq
  found,           \* wait4: child_pid of find_zombie
  status,          \* wait4: exit_code of find_zombie
  code,            \* exit: its argument
  masked           \* exit: does it run with interrupts off?

tableVars == <<ptable, registered>>
procVars  == <<next_pid, state, parent_pid, exit_code>>
kinVars   == <<children, child_count>>
wakeVars  == <<child_exit_seq, wait_queue, sigchld>>
waitVars  == <<target, nohang, snap, found, status>>
exitVars  == <<code, masked>>
vars == <<next_pid, state, parent_pid, children, child_count, exit_code, child_exit_seq,
          wait_queue, sigchld, ptable, registered, pc, target, nohang, snap, found, status, code,
          masked>>

Init ==
  /\ next_pid = 2
  /\ state = [p \in Pids |-> IF p = 1 THEN "running" ELSE "none"]
  /\ parent_pid = [p \in Pids |-> Any]
  /\ children = [p \in Pids |-> {}]
  /\ child_count = [p \in Pids |-> 0]
  /\ exit_code = [p \in Pids |-> 0]
  /\ child_exit_seq = [p \in Pids |-> 0]
  /\ wait_queue = [p \in Pids |-> << >>]
  /\ sigchld = {}
  /\ ptable = {1}
  /\ registered = {1}
  /\ pc = [p \in Pids |-> IF p = 1 THEN "user" ELSE "none"]
  /\ target = [p \in Pids |-> Any]
  /\ nohang = [p \in Pids |-> FALSE]
  /\ snap = [p \in Pids |-> 0]
  /\ found = [p \in Pids |-> Any]
  /\ status = [p \in Pids |-> 0]
  /\ code = [p \in Pids |-> 0]
  /\ masked = [p \in Pids |-> FALSE]

Goto(p, l) == pc' = [pc EXCEPT ![p] = l]

(* The points inside Process::exit, from its first store to its last schedule. *)
Exiting == {"exit_zombie", "exit_code", "exit_find", "exit_raise", "exit_bump",
            "exit_wake", "exit_dead"}

(* p's thread is at l and may run: nobody else is inside a masked exit. *)
At(p, l) ==
  /\ pc[p] = l
  /\ \A q \in Pids \ {p} : pc[q] \in Exiting => ~masked[q]

-----------------------------------------------------------------------------
(* sys_fork: children_full, alloc_pid, the child's Process, register_process, *)
(* ptable_insert, add_child, enqueue_thread.                                  *)

ChildrenFull(p) == Cardinality(children[p]) >= MaxChildren

PtableInsert(p) == IF Cardinality(ptable) < PtableCap THEN ptable \cup {p} ELSE ptable

Fork(p) ==
  LET c == next_pid IN
  /\ At(p, "user")
  /\ ~ChildrenFull(p)
  /\ c \in Pids
  /\ next_pid' = c + 1
  /\ state' = [state EXCEPT ![c] = "running"]
  /\ parent_pid' = [parent_pid EXCEPT ![c] = p]
  /\ registered' = registered \cup {c}
  /\ ptable' = PtableInsert(c)
  /\ children' = [children EXCEPT ![p] = @ \cup {c}]
  /\ child_count' = [child_count EXCEPT ![p] = @ + 1]
  /\ Goto(c, "user")
  /\ UNCHANGED <<exit_code, wakeVars, waitVars, exitVars>>

-----------------------------------------------------------------------------
(* sys_wait4 *)

(* wait4 returns to user mode, and its locals are gone. *)
WaitReturn(p) ==
  /\ Goto(p, "user")
  /\ target' = [target EXCEPT ![p] = Any]
  /\ nohang' = [nohang EXCEPT ![p] = FALSE]
  /\ snap' = [snap EXCEPT ![p] = 0]
  /\ found' = [found EXCEPT ![p] = Any]
  /\ status' = [status EXCEPT ![p] = 0]

WaitCall(p) ==
  /\ At(p, "user")
  /\ \E t \in {Any} \cup 1..(next_pid - 1), h \in BOOLEAN :
       target' = [target EXCEPT ![p] = t] /\ nohang' = [nohang EXCEPT ![p] = h]
  /\ Goto(p, "wait_count")
  /\ UNCHANGED <<tableVars, procVars, kinVars, wakeVars, snap, found, status, exitVars>>

(* ECHILD when there is no child at all *)
WaitCount(p) ==
  /\ At(p, "wait_count")
  /\ IF child_count[p] = 0 THEN WaitReturn(p) ELSE Goto(p, "wait_sample") /\ UNCHANGED waitVars
  /\ UNCHANGED <<tableVars, procVars, kinVars, wakeVars, exitVars>>

WaitSample(p) ==
  /\ At(p, "wait_sample")
  /\ snap' = [snap EXCEPT ![p] = child_exit_seq[p]]
  /\ Goto(p, "wait_scan")
  /\ UNCHANGED <<tableVars, procVars, kinVars, wakeVars, target, nohang, found, status, exitVars>>

Matches(p, c) == target[p] \in {Any, c}

(* Mutant of Zombies: find_zombie does not look at the child's state. *)
ZombiesAnyState(p) == {c \in children[p] : Matches(p, c) /\ c \in ptable}

(* The zombies find_zombie may return. *)
Zombies(p) == {c \in children[p] : Matches(p, c) /\ c \in ptable /\ state[c] = "zombie"}

WaitScan(p) ==
  /\ At(p, "wait_scan")
  /\ \/ \E c \in Zombies(p) :
          /\ found' = [found EXCEPT ![p] = c]
          /\ status' = [status EXCEPT ![p] = exit_code[c]]
          /\ Goto(p, "reap_child")
          /\ UNCHANGED <<target, nohang, snap>>
     \/ Zombies(p) = {} /\ nohang[p] /\ WaitReturn(p)
     \/ Zombies(p) = {} /\ ~nohang[p] /\ Goto(p, "wait_block") /\ UNCHANGED waitVars
  /\ UNCHANGED <<tableVars, procVars, kinVars, wakeVars, exitVars>>

(* Mutant of WaitBlock: thread_block, which does not look at the counter again. *)
WaitBlockUnchecked(p) ==
  /\ At(p, "wait_block")
  /\ wait_queue' = [wait_queue EXCEPT ![p] = Enqueue(@, p)] /\ Goto(p, "blocked")
  /\ UNCHANGED <<tableVars, procVars, kinVars, child_exit_seq, sigchld, waitVars, exitVars>>

(* thread_block_if(wait_queue, child_exit_seq == seen_seq) *)
WaitBlock(p) ==
  /\ At(p, "wait_block")
  /\ IF child_exit_seq[p] = snap[p]
       THEN wait_queue' = [wait_queue EXCEPT ![p] = Enqueue(@, p)] /\ Goto(p, "blocked")
       ELSE UNCHANGED wait_queue /\ Goto(p, "wait_count")
  /\ UNCHANGED <<tableVars, procVars, kinVars, child_exit_seq, sigchld, waitVars, exitVars>>

(* reap_zombie: remove_child, ptable_remove, unregister_process, the frees. *)
ReapChild(p) ==
  /\ At(p, "reap_child")
  /\ IF found[p] \in ptable
       THEN /\ children' = [children EXCEPT ![p] = @ \ {found[p]}]
            /\ child_count' = [child_count EXCEPT ![p] = @ - 1]
            /\ Goto(p, "reap_ptable")
            /\ UNCHANGED waitVars
       ELSE UNCHANGED kinVars /\ WaitReturn(p)
  /\ UNCHANGED <<tableVars, procVars, wakeVars, exitVars>>

(* Mutant of ReapPtable: the reaped pid stays findable. *)
ReapPtableForgotten(p) ==
  /\ At(p, "reap_ptable")
  /\ Goto(p, "reap_table")
  /\ UNCHANGED <<tableVars, procVars, kinVars, wakeVars, waitVars, exitVars>>

ReapPtable(p) ==
  /\ At(p, "reap_ptable")
  /\ ptable' = ptable \ {found[p]}
  /\ Goto(p, "reap_table")
  /\ UNCHANGED <<registered, procVars, kinVars, wakeVars, waitVars, exitVars>>

(* Mutant of ReapUnregister: the reaped process stays in PROCESS_TABLE. *)
ReapUnregisterForgotten(p) ==
  /\ At(p, "reap_table")
  /\ Goto(p, "reap_free")
  /\ UNCHANGED <<tableVars, procVars, kinVars, wakeVars, waitVars, exitVars>>

ReapUnregister(p) ==
  /\ At(p, "reap_table")
  /\ registered' = registered \ {found[p]}
  /\ Goto(p, "reap_free")
  /\ UNCHANGED <<ptable, procVars, kinVars, wakeVars, waitVars, exitVars>>

(* drop_ref of the address space, the kernel stack, then the Process frame *)
ReapFree(p) ==
  /\ At(p, "reap_free")
  /\ state' = [state EXCEPT ![found[p]] = "freed"]
  /\ WaitReturn(p)
  /\ UNCHANGED <<tableVars, next_pid, parent_pid, exit_code, kinVars, wakeVars, exitVars>>

-----------------------------------------------------------------------------
(* Process::exit (the descriptors it closes first are modelled by Pipe) *)

ExitCall(p) ==
  /\ At(p, "user")
  /\ \E n \in Codes : code' = [code EXCEPT ![p] = n]
  /\ \E m \in BOOLEAN : masked' = [masked EXCEPT ![p] = m]
  /\ Goto(p, "exit_zombie")
  /\ UNCHANGED <<tableVars, procVars, kinVars, wakeVars, waitVars>>

ExitZombie(p) ==
  /\ At(p, "exit_zombie")
  /\ state' = [state EXCEPT ![p] = "zombie"]
  /\ Goto(p, "exit_code")
  /\ UNCHANGED <<tableVars, next_pid, parent_pid, exit_code, kinVars, wakeVars, waitVars, exitVars>>

(* Mutant of ExitCode: the code is not stored. *)
ExitCodeForgotten(p) ==
  /\ At(p, "exit_code")
  /\ Goto(p, "exit_find")
  /\ UNCHANGED <<tableVars, procVars, kinVars, wakeVars, waitVars, exitVars>>

ExitCode(p) ==
  /\ At(p, "exit_code")
  /\ exit_code' = [exit_code EXCEPT ![p] = code[p]]
  /\ Goto(p, "exit_find")
  /\ UNCHANGED <<tableVars, next_pid, parent_pid, state, kinVars, wakeVars, waitVars, exitVars>>

(* Mutant of ExitFind: no test that ptable_find found the parent. *)
ExitFindUnchecked(p) ==
  /\ At(p, "exit_find")
  /\ Goto(p, "exit_raise")
  /\ UNCHANGED <<tableVars, procVars, kinVars, wakeVars, waitVars, exitVars>>

ExitFind(p) ==
  /\ At(p, "exit_find")
  /\ Goto(p, IF parent_pid[p] \in ptable THEN "exit_raise" ELSE "exit_dead")
  /\ UNCHANGED <<tableVars, procVars, kinVars, wakeVars, waitVars, exitVars>>

ExitRaise(p) ==
  /\ At(p, "exit_raise")
  /\ sigchld' = sigchld \cup {parent_pid[p]}
  /\ Goto(p, "exit_bump")
  /\ UNCHANGED <<tableVars, procVars, kinVars, child_exit_seq, wait_queue, waitVars, exitVars>>

(* Mutant of ExitBump: the wake is sent without moving child_exit_seq. *)
ExitBumpForgotten(p) ==
  /\ At(p, "exit_bump")
  /\ Goto(p, "exit_wake")
  /\ UNCHANGED <<tableVars, procVars, kinVars, wakeVars, waitVars, exitVars>>

ExitBump(p) ==
  /\ At(p, "exit_bump")
  /\ child_exit_seq' = [child_exit_seq EXCEPT ![parent_pid[p]] = @ + 1]
  /\ Goto(p, "exit_wake")
  /\ UNCHANGED <<tableVars, procVars, kinVars, wait_queue, sigchld, waitVars, exitVars>>

(* The woken thread returns from thread_block_if to the top of its loop. *)
ExitWake(p) ==
  LET o == WakeOne(wait_queue[parent_pid[p]]) IN
  /\ At(p, "exit_wake")
  /\ wait_queue' = [wait_queue EXCEPT ![parent_pid[p]] = o.left]
  /\ pc' = [q \in Pids |-> IF q = p THEN "exit_dead"
                           ELSE IF q \in o.woken THEN "wait_count" ELSE pc[q]]
  /\ UNCHANGED <<tableVars, procVars, kinVars, child_exit_seq, sigchld, waitVars, exitVars>>

(* The thread becomes Dead and schedule switches away from it for good. *)
ExitDead(p) ==
  /\ At(p, "exit_dead")
  /\ Goto(p, "gone")
  /\ UNCHANGED <<tableVars, procVars, kinVars, wakeVars, waitVars, exitVars>>

-----------------------------------------------------------------------------
WaitStep(p) ==
  \/ WaitCount(p) \/ WaitSample(p) \/ WaitScan(p) \/ WaitBlock(p)
  \/ ReapChild(p) \/ ReapPtable(p) \/ ReapUnregister(p) \/ ReapFree(p)

ExitStep(p) ==
  \/ ExitZombie(p) \/ ExitCode(p) \/ ExitFind(p) \/ ExitRaise(p)
  \/ ExitBump(p) \/ ExitWake(p) \/ ExitDead(p)

Next ==
  \E p \in Pids : Fork(p) \/ WaitCall(p) \/ ExitCall(p) \/ WaitStep(p) \/ ExitStep(p)

Spec == Init /\ [][Next]_vars

(* A thread inside a call keeps being scheduled; user code may run forever. *)
FairSpec == Spec /\ \A p \in Pids : WF_vars(WaitStep(p) \/ ExitStep(p))
-----------------------------------------------------------------------------
(* Properties *)

Waiting4 == {"wait_count", "wait_sample", "wait_scan", "wait_block", "blocked"}
Reaping  == {"reap_child", "reap_ptable", "reap_table", "reap_free"}
Labels   == {"none", "user", "gone"} \cup Waiting4 \cup Reaping \cup Exiting

(* The type of the state. *)
TypeOK ==
  /\ next_pid \in 2..(MaxPid + 1)
  /\ state \in [Pids -> {"none", "running", "zombie", "freed"}]
  /\ parent_pid \in [Pids -> Pids \cup {Any}]
  /\ children \in [Pids -> SUBSET Pids]
  /\ child_count \in [Pids -> Nat]
  /\ exit_code \in [Pids -> Codes \cup {0}]
  /\ child_exit_seq \in [Pids -> Nat]
  /\ wait_queue \in [Pids -> Seq(Pids)]
  /\ sigchld \subseteq Pids
  /\ ptable \subseteq Pids
  /\ registered \subseteq Pids
  /\ pc \in [Pids -> Labels]
  /\ target \in [Pids -> Pids \cup {Any}]
  /\ nohang \in [Pids -> BOOLEAN]
  /\ snap \in [Pids -> Nat]
  /\ found \in [Pids -> Pids \cup {Any}]
  /\ status \in [Pids -> Codes \cup {0}]
  /\ code \in [Pids -> Codes \cup {0}]
  /\ masked \in [Pids -> BOOLEAN]

(* A zombie that has not delivered its wake yet. *)
OwesWake(c) == pc[c] \in {"exit_code", "exit_find", "exit_raise", "exit_bump", "exit_wake"}

(* "Neither path sleeps through this exit" (process.rs:304, wait.rs:134-141): *)
(* while a parent sleeps in wait4, every zombie it would accept is still on   *)
(* its way to wake it.                                                        *)
NoLostChildExit ==
  \A p \in Pids : pc[p] = "blocked" =>
    \A c \in children[p] : (Matches(p, c) /\ state[c] = "zombie") => OwesWake(c)

(* reap_zombie's free order (wait.rs:209-219): no table entry and no live  *)
(* parent's children list ever names a freed Process frame, at any point   *)
(* between the steps of any number of reaps.                               *)
NoDanglingEntry ==
  /\ \A p \in ptable \cup registered : state[p] \in {"running", "zombie"}
  /\ \A p \in Pids : state[p] \in {"running", "zombie"} =>
       \A c \in children[p] : state[c] \in {"running", "zombie"}

(* "the parent cannot be mid-reap of THIS child (it would have to have found *)
(* us as a zombie first, which requires this function to have already        *)
(* returned)" (process.rs:291-294): a process frame, its kernel stack and    *)
(* its thread are freed only after its exit has switched away for good.      *)
ReapsOnlyFinished == \A c \in Pids : state[c] = "freed" => pc[c] = "gone"

(* What is left of that comment: a masked exit is never reaped before its   *)
(* last schedule, whatever the unmasked exits around it do (find_zombie     *)
(* needs the Zombie that exit stores first, process.rs:275-316).            *)
MaskedExitWhole ==
  \A c \in Pids : (masked[c] /\ state[c] = "freed") => pc[c] = "gone"

(* "a zombie must stay findable by PID so the parent's sys_wait4 can locate *)
(* it and read its exit_code" (process.rs:282-284): the status wait4        *)
(* reports is the code the child passed to exit; of an unmasked exit seen   *)
(* between its stores of Zombie and of the code (process.rs:275-276) it may *)
(* be the initial 0, and nothing else.                                      *)
StatusIsExitCode ==
  \A p \in Pids : pc[p] \in Reaping =>
    \/ status[p] = code[found[p]]
    \/ status[p] = 0 /\ ~masked[found[p]]

(* "ptable only holds live Process pointers" (process.rs:291): the parent a *)
(* masked exit signals, bumps and wakes has not been freed since            *)
(* ptable_find, even when that parent's own exit is not masked and it is    *)
(* being reaped.                                                            *)
NotifiesLiveParent ==
  \A c \in Pids : (masked[c] /\ pc[c] \in {"exit_raise", "exit_bump", "exit_wake"}) =>
    state[parent_pid[c]] # "freed"

(* wait4 returns once a child it would accept is a zombie (sys_wait4's loop *)
(* terminates: it reaps that child or another one).                         *)
WaitReturns ==
  \A p \in Pids :
    (pc[p] \in Waiting4 /\ \E c \in children[p] : Matches(p, c) /\ state[c] = "zombie")
      ~> pc[p] = "user"
=============================================================================
