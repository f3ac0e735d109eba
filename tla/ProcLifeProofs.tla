--------------------------- MODULE ProcLifeProofs ---------------------------
(***************************************************************************)
(* Proofs about ProcLife, for any number of processes: the state keeps its *)
(* type, no table names a freed process, and a parent asleep in wait4      *)
(* misses no exit; and, masked and unmasked exits mixed at will, what a    *)
(* reap may free, what status wait4 reports and whom an exit notifies.     *)
(***************************************************************************)
EXTENDS ProcLifeSteps

-----------------------------------------------------------------------------
(* Shape, concluded *)

(* reap_zombie takes the child out of one place after the other. *)
LEMMA ShapeReap ==
  ASSUME Shape, NEW p \in Pids, ReapChild(p) \/ ReapPtable(p) \/ ReapUnregister(p) \/ ReapFree(p)
  PROVE  Shape'
<1>0. TypeOK /\ Reap
  BY DEF Shape
<1>a. /\ pc[p] \in Reaping /\ found[p] \in Pids /\ state[found[p]] = "zombie" /\ parent_pid[found[p]] = p
      /\ p # found[p] /\ pc'[p] # "none" /\ pc'[p] # "blocked"
      /\ pc'[p] \notin {"exit_raise", "exit_bump", "exit_wake"} /\ pc'[p] \in Alive /\ pc[p] \in Alive
      /\ \A q \in Pids : q # p => pc'[q] = pc[q] /\ found'[q] = found[q] /\ snap'[q] = snap[q]
      /\ snap'[p] \in {0, snap[p]} /\ TypeOK' /\ UNCHANGED <<next_pid, parent_pid, child_exit_seq, wait_queue>>
  <2>1. /\ pc[p] \in Reaping /\ pc'[p] \in Reaping \cup {"user"} /\ TypeOK'
        /\ \A q \in Pids : q # p => pc'[q] = pc[q] /\ found'[q] = found[q] /\ snap'[q] = snap[q]
        /\ snap'[p] \in {0, snap[p]} /\ UNCHANGED <<next_pid, parent_pid, child_exit_seq, wait_queue>>
    BY <1>0, ReapChildFx, ReapPtableFx, ReapUnregisterFx, ReapFreeFx, Zenon DEF Reaping
  <2>2. found[p] \in Pids /\ state[found[p]] = "zombie" /\ parent_pid[found[p]] = p
    BY <2>1 DEF Shape, Reap, ReapOf
  <2>3. pc'[p] \in Alive /\ pc[p] \in Alive /\ state[p] = "running"
    BY <2>1 DEF Alive, Shape, PcState
  <2> QED BY <2>1, <2>2, <2>3 DEF Reaping
<1>b. /\ \A q \in Pids : found[p] \in children[q] => q = p
      /\ \A q \in Pids : q # p /\ pc[q] \in Reaping => found[q] # found[p] /\ parent_pid[found[q]] = q
  BY <1>a, SMTT(30) DEF Shape, Kin, Reap, ReapOf
<1>1. Queues'
  BY <1>a, Zenon DEF Shape, Queues, Reaping
<1>2. Notifying'
  BY <1>a DEF Shape, Notifying
<1>3. Snaps'
  <2>1. \A q \in Pids : child_exit_seq[q] \in Nat /\ snap[q] <= child_exit_seq[q]
    BY DEF Shape, Snaps, TypeOK
  <2> QED BY <1>a, <2>1 DEF Snaps
<1>4. CASE ReapChild(p)
  <2>0. /\ pc[p] = "reap_child" /\ pc'[p] = "reap_ptable"
        /\ (\A q \in Pids : q # p => children'[q] = children[q]) /\ children'[p] = children[p] \ {found[p]}
        /\ UNCHANGED <<state, ptable, registered, found>>
    BY <1>4, ReapChildFx, Zenon
  <2>1. PcState'
    BY <1>a, <2>0, ZenonT(30) DEF Shape, PcState, Allocated
  <2>2. Kin'
    BY <1>a, <2>0, SMTT(30) DEF Shape, Kin, Allocated
  <2>3. Reap'
    <3>1. \A q \in Pids : q # p => pc'[q] = pc[q] /\ children'[q] = children[q]
      BY <1>a, <2>0, Zenon
    <3>2. UNCHANGED <<state, parent_pid, found, ptable, registered>>
      BY <1>a, <2>0, Zenon
    <3>3. found[p] \notin children'[p]
      BY <2>0, Zenon
    <3> QED BY <1>0, <1>a, <2>0, <3>1, <3>2, <3>3, SMTT(30) DEF Reap, ReapOf, Reaping
  <2>4. Counts'
    BY <1>4, ReapChildFx DEF Shape, Counts
  <2> QED BY <1>a, <1>1, <1>2, <1>3, <2>1, <2>2, <2>3, <2>4 DEF Shape
<1>5. CASE ReapPtable(p)
  <2>0. /\ pc[p] = "reap_ptable" /\ pc'[p] = "reap_table" /\ ptable' = ptable \ {found[p]}
        /\ UNCHANGED <<state, registered, children, child_count, found>>
    BY <1>0, <1>5, ReapPtableFx, Zenon
  <2>1. PcState'
    BY <1>a, <2>0 DEF Shape, PcState, Allocated
  <2>2. Kin'
    <3>1. \A q \in Pids : found[p] \notin children[q]
      BY <1>0, <1>a, <1>b, <2>0, SMTT(30) DEF Reap, ReapOf
    <3>2. state[p] = "running" /\ state[found[p]] = "zombie"
      BY <1>a DEF Shape, PcState
    <3>3. ptable' \subseteq Allocated'
      BY <1>a, <2>0, Zenon DEF Shape, Kin, Allocated
    <3>6. \A q \in ptable' \cup registered' : state'[q] \in {"running", "zombie"}
      BY <1>a, <2>0 DEF Shape, Kin
    <3>4. \A q \in Pids : state'[q] = "running" => q \in ptable'
      BY <2>0, <3>2 DEF Shape, Kin
    <3>5. \A q \in Pids : \A d \in children'[q] :
            d \in ptable' /\ parent_pid'[d] = q /\ state'[d] \in {"running", "zombie"}
      <4>1. UNCHANGED <<children, parent_pid, state>>
        BY <1>a, <2>0, Zenon
      <4>2. \A q \in Pids : \A d \in children[q] :
              d \in ptable /\ parent_pid[d] = q /\ state[d] \in {"running", "zombie"}
        BY Zenon DEF Shape, Kin
      <4>3. \A q \in Pids : \A d \in children[q] : d \in ptable'
        BY <2>0, <3>1, <4>2, Zenon
      <4> QED BY <4>1, <4>2, <4>3, Zenon
    <3> QED BY <3>3, <3>4, <3>5, <3>6 DEF Kin
  <2>3. Reap'
    BY <1>0, <1>a, <2>0, SMTT(30) DEF Reap, ReapOf, Reaping
  <2>4. Counts'
    BY <2>0 DEF Shape, Counts
  <2> QED BY <1>a, <1>1, <1>2, <1>3, <2>1, <2>2, <2>3, <2>4 DEF Shape
<1>6. CASE ReapUnregister(p)
  <2>0. /\ pc[p] = "reap_table" /\ pc'[p] = "reap_free" /\ registered' = registered \ {found[p]}
        /\ UNCHANGED <<state, ptable, children, child_count, found>>
    BY <1>0, <1>6, ReapUnregisterFx, Zenon
  <2>1. PcState'
    BY <1>a, <2>0 DEF Shape, PcState, Allocated
  <2>2. Kin'
    BY <1>a, <2>0 DEF Shape, Kin, Allocated
  <2>3. Reap'
    BY <1>0, <1>a, <2>0, SMTT(30) DEF Reap, ReapOf, Reaping
  <2>4. Counts'
    BY <2>0 DEF Shape, Counts
  <2> QED BY <1>a, <1>1, <1>2, <1>3, <2>1, <2>2, <2>3, <2>4 DEF Shape
<1>7. CASE ReapFree(p)
  <2>0. /\ found[p] \notin ptable \cup registered /\ (\A q \in Pids : found[p] \notin children[q])
        /\ pc[p] = "reap_free" /\ pc'[p] = "user" /\ state'[found[p]] = "freed"
        /\ \A q \in Pids : q # found[p] => state'[q] = state[q]
        /\ UNCHANGED <<ptable, registered, children, child_count>>
    <3>1. /\ pc[p] = "reap_free" /\ pc'[p] = "user" /\ state'[found[p]] = "freed"
          /\ \A q \in Pids : q # found[p] => state'[q] = state[q]
          /\ UNCHANGED <<ptable, registered, children, child_count>>
      BY <1>0, <1>7, ReapFreeFx, Zenon
    <3>2. found[p] \notin ptable \cup registered /\ found[p] \notin children[p]
      BY <1>0, <1>a, <3>1 DEF Reap, ReapOf
    <3> QED BY <1>b, <3>1, <3>2
  <2>1. PcState'
    <3>1. pc[found[p]] \notin Alive /\ found[p] \in Allocated
      <4>1. /\ state[found[p]] = "none" <=> found[p] \notin Allocated
            /\ pc[found[p]] \in Alive => state[found[p]] = "running"
        BY <1>a, Zenon DEF Shape, PcState
      <4> QED BY <1>a, <4>1
    <3>2. \A q \in Pids : q # p /\ q # found[p] => pc'[q] = pc[q] /\ state'[q] = state[q]
      BY <1>a, <2>0, Zenon
    <3>3. pc'[found[p]] = pc[found[p]] /\ state'[p] = state[p] /\ Allocated' = Allocated
      BY <1>a, <2>0, Zenon DEF Allocated
    <3> QED BY <1>a, <2>0, <3>1, <3>2, <3>3, SMTT(30) DEF Shape, PcState
  <2>2. Kin'
    <3>1. ptable \subseteq Pids /\ registered \subseteq Pids /\ \A q \in Pids : children[q] \subseteq Pids
      BY SMTT(30) DEF Shape, TypeOK
    <3>2. UNCHANGED <<ptable, registered, children, parent_pid, next_pid>>
      BY <1>a, <2>0, Zenon
    <3>3. \A q \in Pids : q # found[p] => state'[q] = state[q]
      BY <2>0, Zenon
    <3>4. ptable' \subseteq Allocated'
      BY <3>2 DEF Shape, Kin, Allocated
    <3>5. \A q \in Pids : state'[q] = "running" => q \in ptable'
      BY <2>0, <3>2, <3>3 DEF Shape, Kin
    <3>6. \A q \in ptable' \cup registered' : state'[q] \in {"running", "zombie"}
      BY <2>0, <3>1, <3>2, <3>3 DEF Shape, Kin
    <3>7. \A q \in Pids : \A d \in children'[q] :
            d \in ptable' /\ parent_pid'[d] = q /\ state'[d] \in {"running", "zombie"}
      BY <2>0, <3>1, <3>2, <3>3, SMTT(30) DEF Shape, Kin
    <3> QED BY <3>4, <3>5, <3>6, <3>7 DEF Kin
  <2>3. Reap'
    <3>1. pc'[p] \notin Reaping
      BY <2>0 DEF Reaping
    <3>2. \A q \in Pids : pc'[q] \in Reaping =>
            q # p /\ pc'[q] = pc[q] /\ found'[q] = found[q] /\ pc[q] \in Reaping
      BY <1>a, <3>1
    <3>3. \A q \in Pids : pc[q] \in Reaping => found[q] \in Pids
      BY <1>0, Zenon DEF Reap, ReapOf
    <3>4. \A q \in Pids : pc'[q] \in Reaping =>
            q # p /\ pc'[q] = pc[q] /\ found'[q] = found[q] /\ found[q] \in Pids /\ state'[found[q]] = state[found[q]]
      BY <1>b, <2>0, <3>2, <3>3, Zenon
    <3>5. \A q \in Pids : pc[q] \in Reaping =>
            /\ found[q] \in Pids /\ state[found[q]] = "zombie" /\ parent_pid[found[q]] = q
            /\ pc[q] = "reap_child" => found[q] \in children[q]
            /\ pc[q] # "reap_child" => found[q] \notin children[q]
            /\ pc[q] \in {"reap_table", "reap_free"} => found[q] \notin ptable
            /\ pc[q] = "reap_free" => found[q] \notin registered
      BY <1>0, Zenon DEF Reap, ReapOf
    <3>6. UNCHANGED <<ptable, registered, children, parent_pid>>
      BY <1>a, <2>0
    <3> QED BY <3>4, <3>5, <3>6, ZenonT(30) DEF Reap, ReapOf
  <2>4. Counts'
    BY <2>0 DEF Shape, Counts
  <2> QED BY <1>a, <1>1, <1>2, <1>3, <2>1, <2>2, <2>3, <2>4 DEF Shape
<1> QED BY <1>4, <1>5, <1>6, <1>7

(* exit's first store, and its last word to the parent. *)
LEMMA ShapeExit ==
  ASSUME Shape, NEW p \in Pids, ExitZombie(p) \/ ExitWake(p)
  PROVE  Shape'
<1>0. TypeOK
  BY DEF Shape
<1>1. CASE ExitZombie(p)
  <2>0. /\ TypeOK' /\ pc[p] = "exit_zombie" /\ pc'[p] = "exit_code" /\ state'[p] = "zombie"
        /\ \A q \in Pids : q # p => pc'[q] = pc[q] /\ state'[q] = state[q]
        /\ UNCHANGED <<next_pid, parent_pid, ptable, registered, children, child_count,
                       child_exit_seq, wait_queue, snap, found>>
    BY <1>0, <1>1, ExitZombieFx, Zenon
  <2>a. state[p] = "running" /\ p \in ptable /\ ptable \subseteq Pids /\ registered \subseteq Pids
    BY <2>0 DEF Shape, PcState, Alive, Kin, TypeOK
  <2>1. PcState'
    BY <2>0, <2>a DEF Shape, PcState, Alive, Allocated, Waiting4, Reaping
  <2>2. Kin'
    <3>1. ptable' \subseteq Allocated'
      BY <2>0 DEF Shape, Kin, Allocated
    <3>4. \A q \in ptable' \cup registered' : state'[q] \in {"running", "zombie"}
      BY <2>0, <2>a DEF Shape, Kin
    <3>2. \A q \in Pids : state'[q] = "running" => q \in ptable'
      BY <2>0 DEF Shape, Kin
    <3>3. \A q \in Pids : \A d \in children'[q] :
            d \in ptable' /\ parent_pid'[d] = q /\ state'[d] \in {"running", "zombie"}
      BY <2>0, <2>a DEF Shape, Kin
    <3> QED BY <3>1, <3>2, <3>3, <3>4 DEF Kin
  <2>3. Reap'
    BY <2>0, <2>a, SMTT(30) DEF Shape, Reap, ReapOf, Reaping
  <2>4. Counts' /\ Snaps'
    BY <2>0 DEF Shape, Counts, Snaps
  <2>5. Queues'
    BY <2>0, Zenon DEF Shape, Queues
  <2>6. Notifying'
    BY <2>0 DEF Shape, Notifying
  <2> QED BY <2>0, <2>1, <2>2, <2>3, <2>4, <2>5, <2>6 DEF Shape
<1>2. CASE ExitWake(p)
  <2>0. /\ TypeOK' /\ pc[p] = "exit_wake" /\ pc'[p] = "exit_dead" /\ parent_pid[p] \in Pids
        /\ wait_queue'[parent_pid[p]] = << >>
        /\ \A q \in Pids : q # parent_pid[p] => wait_queue'[q] = wait_queue[q]
        /\ pc[parent_pid[p]] = "blocked" => pc'[parent_pid[p]] = "wait_count"
        /\ \A q \in Pids : q # p => \/ pc'[q] = pc[q] /\ (pc[q] = "blocked" => q # parent_pid[p])
                                    \/ q = parent_pid[p] /\ pc[q] = "blocked" /\ pc'[q] = "wait_count"
        /\ UNCHANGED <<next_pid, state, parent_pid, ptable, registered, children, child_count,
                       child_exit_seq, snap, found>>
    BY <1>2, ExitWakeFx, Zenon
  <2>1. PcState'
    BY <2>0, SMTT(30) DEF Shape, PcState, Alive, Allocated, Waiting4, Reaping
  <2>2. Kin'
    BY <2>0 DEF Shape, Kin, Allocated
  <2>3. Reap'
    <3>1. \A q \in Pids : pc'[q] \in Reaping => pc'[q] = pc[q]
      BY <2>0 DEF Reaping
    <3> QED BY <2>0, <3>1, SMTT(30) DEF Shape, Reap, ReapOf
  <2>4. Counts' /\ Snaps'
    BY <2>0 DEF Shape, Counts, Snaps
  <2>5. Queues'
    <3>1. pc'[parent_pid[p]] # "blocked"
      BY <2>0
    <3>2. \A q \in Pids : q # parent_pid[p] => wait_queue'[q] = wait_queue[q] /\ (pc'[q] = "blocked" <=> pc[q] = "blocked")
      BY <2>0
    <3> QED BY <2>0, <3>1, <3>2, Zenon DEF Shape, Queues
  <2>6. Notifying'
    BY <2>0 DEF Shape, Notifying
  <2> QED BY <2>0, <2>1, <2>2, <2>3, <2>4, <2>5, <2>6 DEF Shape
<1> QED BY <1>1, <1>2

(* Every step keeps the tables and the program counters in shape. *)
LEMMA ShapeStep ==
  ASSUME BucketsSuffice, Shape, [Next]_vars
  PROVE  Shape'
<1>1. CASE UNCHANGED vars
  BY <1>1, Zenon DEF vars, Shape, TypeOK, PcState, Alive, Allocated, Kin, Reap, ReapOf, Counts, Queues, Notifying, Snaps
<1>2. ASSUME NEW p \in Pids, Fork(p) \/ WaitCall(p) \/ ExitCall(p) \/ WaitStep(p) \/ ExitStep(p)
      PROVE  Shape'
  BY <1>2, ShapeFork, ShapeMoves, ShapeReap, ShapeExit, Zenon DEF WaitStep, ExitStep
<1> QED BY <1>1, <1>2, Zenon DEF Next

-----------------------------------------------------------------------------
(* Wakes and codes *)

(* The protocol between exit and wait4 for a parent p and a child c: while  *)
(* p is about to sleep with an up-to-date snapshot, a zombie it would       *)
(* accept has not bumped the counter; while p sleeps, it has not yet woken  *)
(* p.                                                                       *)
Owed(p, c) ==
  (c \in children[p] /\ Matches(p, c) /\ state[c] = "zombie") =>
    /\ pc[p] = "blocked" => OwesWake(c)
    /\ (pc[p] = "wait_block" /\ snap[p] = child_exit_seq[p]) =>
         pc[c] \in {"exit_code", "exit_find", "exit_raise", "exit_bump"}

WakeInv == \A p, c \in Pids : Owed(p, c)

IInv == Shape /\ WakeInv

(* What the two kinds of exit leave true of a reap: the child of a masked   *)
(* exit has finished it and the status is its code; of any child the status *)
(* is the code or the 0 of before.                                          *)
ReapSeen ==
  \A p \in Pids : pc[p] \in Reaping =>
    /\ masked[found[p]] => pc[found[p]] = "gone" /\ status[p] = code[found[p]]
    /\ status[p] \in {0, code[found[p]]}

Published == {"gone", "exit_find", "exit_raise", "exit_bump", "exit_wake", "exit_dead"}

(* exit_code is 0 until exit stores its argument. *)
CodePublished ==
  \A c \in Pids : exit_code[c] = IF pc[c] \in Published THEN code[c] ELSE 0

ZombiePc == \A c \in Pids : state[c] \in {"zombie", "freed"} => pc[c] \in Exiting \cup {"gone"}

ExitInv ==
  ReapSeen /\ CodePublished /\ ZombiePc /\ MaskedExitWhole /\ NotifiesLiveParent

-----------------------------------------------------------------------------
(* A zombie that has not bumped its parent's counter yet. *)
OwesBump(c) == pc[c] \in {"exit_code", "exit_find", "exit_raise", "exit_bump"}

(* A step that brings p no nearer to sleep, leaves its counter alone and     *)
(* lets c pay nothing keeps Owed(p, c).                                      *)
LEMMA OwedFrame ==
  ASSUME NEW p \in Pids, NEW c \in Pids, Owed(p, c),
         c \in children'[p] => c \in children[p],
         state'[c] = "zombie" => state[c] = "zombie",
         child_exit_seq'[p] = child_exit_seq[p],
         pc'[p] \in {"wait_block", "blocked"} =>
           pc'[p] = pc[p] /\ snap'[p] = snap[p] /\ target'[p] = target[p],
         (OwesWake(c) => OwesWake(c)') /\ (OwesBump(c) => OwesBump(c)')
  PROVE  Owed(p, c)'
BY DEF Owed, OwesBump, Matches

(* The same for a step that only moves the thread of a. *)
LEMMA OwedMoves ==
  ASSUME NEW p \in Pids, NEW c \in Pids, Owed(p, c), NEW a \in Pids, Moves(a),
         child_exit_seq'[p] = child_exit_seq[p],
         pc'[a] \in {"wait_block", "blocked"} => a # p,
         a = c => (OwesWake(c) => OwesWake(c)') /\ (OwesBump(c) => OwesBump(c)')
  PROVE  Owed(p, c)'
<1>1. /\ \A q \in Pids : q # a => pc'[q] = pc[q] /\ snap'[q] = snap[q] /\ target'[q] = target[q]
      /\ UNCHANGED <<state, children>>
  BY DEF Moves
<1>2. (OwesWake(c) => OwesWake(c)') /\ (OwesBump(c) => OwesBump(c)')
  BY <1>1 DEF OwesWake, OwesBump
<1> QED BY <1>1, <1>2, OwedFrame

(* The steps that only move a thread. *)
LEMMA WakeMoves ==
  ASSUME Shape, NEW p \in Pids, NEW c \in Pids, Owed(p, c), NEW a \in Pids,
         \/ WaitCall(a) \/ WaitCount(a) \/ WaitSample(a) \/ WaitScan(a) \/ WaitBlock(a)
         \/ ExitCall(a) \/ ExitCode(a) \/ ExitFind(a) \/ ExitRaise(a) \/ ExitBump(a) \/ ExitDead(a)
  PROVE  Owed(p, c)'
<1>0. TypeOK /\ Queues /\ Notifying
  BY DEF Shape
<1>1. CASE WaitCall(a)
  BY <1>0, <1>1, WaitCallFx, OwedMoves, Zenon DEF OwesWake, OwesBump
<1>2. CASE WaitCount(a)
  BY <1>0, <1>2, WaitCountFx, OwedMoves, Zenon DEF OwesWake, OwesBump
<1>3. CASE WaitSample(a)
  BY <1>0, <1>3, WaitSampleFx, OwedMoves, Zenon DEF OwesWake, OwesBump
<1>4. CASE ExitCall(a)
  BY <1>0, <1>4, ExitCallFx, OwedMoves, Zenon DEF OwesWake, OwesBump
<1>5. CASE ExitCode(a)
  BY <1>0, <1>5, ExitCodeFx, OwedMoves, Zenon DEF OwesWake, OwesBump
<1>6. CASE ExitRaise(a)
  BY <1>0, <1>6, ExitRaiseFx, OwedMoves, Zenon DEF OwesWake, OwesBump
<1>7. CASE ExitDead(a)
  BY <1>0, <1>7, ExitDeadFx, OwedMoves, Zenon DEF OwesWake, OwesBump
<1>8. CASE WaitScan(a)
  <2>0. /\ Moves(a) /\ pc[a] = "wait_scan" /\ UNCHANGED child_exit_seq
        /\ \/ pc'[a] \in {"reap_child", "user"}
           \/ pc'[a] = "wait_block" /\ Zombies(a) = {} /\ UNCHANGED target
    BY <1>0, <1>8, WaitScanFx, Zenon
  <2>1. CASE a = p /\ pc'[a] = "wait_block"
    <3>1. Zombies(p) = {} /\ UNCHANGED <<children, state, target>>
      BY <2>0, <2>1 DEF Moves
    <3>2. ~(c \in children[p] /\ Matches(p, c) /\ state[c] = "zombie")
      BY <3>1 DEF Zombies, Shape, Kin
    <3> QED BY <3>1, <3>2 DEF Owed, Matches
  <2>2. CASE ~(a = p /\ pc'[a] = "wait_block")
    BY <2>0, <2>2, OwedMoves, Zenon DEF OwesWake, OwesBump
  <2> QED BY <2>1, <2>2
<1>9. CASE WaitBlock(a)
  <2>0. /\ Moves(a) /\ pc[a] = "wait_block" /\ UNCHANGED <<child_exit_seq, snap, target>>
        /\ \/ pc'[a] = "blocked" /\ child_exit_seq[a] = snap[a]
           \/ pc'[a] = "wait_count"
    BY <1>0, <1>9, WaitBlockFx, Zenon
  <2>1. CASE a = p /\ pc'[a] = "blocked"
    <3>1. /\ pc[p] = "wait_block" /\ snap[p] = child_exit_seq[p] /\ (c # p => pc'[c] = pc[c])
          /\ UNCHANGED <<children, state, target>>
      BY <2>0, <2>1 DEF Moves
    <3>2. state[p] = "running"
      BY <3>1 DEF Shape, PcState, Alive, Waiting4
    <3> QED BY <2>1, <3>1, <3>2 DEF Owed, OwesWake, Matches
  <2>2. CASE ~(a = p /\ pc'[a] = "blocked")
    BY <2>0, <2>2, OwedMoves, Zenon DEF OwesWake, OwesBump
  <2> QED BY <2>1, <2>2
<1>10. CASE ExitFind(a)
  <2>0. /\ Moves(a) /\ pc[a] = "exit_find" /\ UNCHANGED <<child_exit_seq>>
        /\ pc'[a] = IF parent_pid[a] \in ptable THEN "exit_raise" ELSE "exit_dead"
    BY <1>0, <1>10, ExitFindFx, Zenon
  <2>1. CASE parent_pid[a] \in ptable
    BY <2>0, <2>1, OwedMoves, Zenon DEF OwesWake, OwesBump
  <2>2. CASE a # c
    BY <2>0, <2>2, OwedMoves, Zenon
  <2>3. CASE parent_pid[a] \notin ptable /\ a = c
    <3>1. (\A q \in Pids : q # a => pc'[q] = pc[q]) /\ children' = children
      BY <2>0 DEF Moves
    <3>2. c \in children[p] => pc[p] \notin {"wait_block", "blocked"}
      BY <2>3 DEF Shape, Kin, PcState, Alive, Waiting4
    <3> QED BY <2>0, <2>3, <3>1, <3>2 DEF Owed
  <2> QED BY <2>1, <2>2, <2>3
<1>11. CASE ExitBump(a)
  <2>0. /\ Moves(a) /\ pc[a] = "exit_bump" /\ pc'[a] = "exit_wake" /\ parent_pid[a] \in Pids
        /\ child_exit_seq'[parent_pid[a]] = child_exit_seq[parent_pid[a]] + 1
        /\ \A q \in Pids : q # parent_pid[a] => child_exit_seq'[q] = child_exit_seq[q]
        /\ UNCHANGED <<snap, target>>
    BY <1>0, <1>11, ExitBumpFx, Zenon
  <2>a. (\A q \in Pids : q # a => pc'[q] = pc[q]) /\ UNCHANGED <<children, state>>
    BY <2>0 DEF Moves
  <2>1. CASE parent_pid[a] = p
    <3>1. snap[p] \in Nat /\ child_exit_seq[p] \in Nat /\ snap[p] <= child_exit_seq[p]
      BY DEF Shape, Snaps, TypeOK
    <3>a. snap'[p] = snap[p] /\ child_exit_seq'[p] = child_exit_seq[p] + 1
      BY <2>0, <2>1, Zenon
    <3>2. snap'[p] # child_exit_seq'[p]
      BY <3>1, <3>a
    <3>3. pc'[p] = "blocked" => pc[p] = "blocked"
      BY <2>0, <2>a
    <3>4. OwesWake(c) => OwesWake(c)'
      BY <2>0, <2>a DEF OwesWake
    <3> QED BY <2>0, <2>a, <3>2, <3>3, <3>4 DEF Owed, Matches
  <2>2. CASE parent_pid[a] # p /\ a = c
    BY <2>a, <2>2 DEF Owed, Shape, Kin
  <2>3. CASE parent_pid[a] # p /\ a # c
    BY <2>0, <2>3, OwedMoves, Zenon
  <2> QED BY <2>1, <2>2, <2>3
<1> QED BY <1>1, <1>2, <1>3, <1>4, <1>5, <1>6, <1>7, <1>8, <1>9, <1>10, <1>11

(* Every step keeps Owed. *)
LEMMA WakeStep ==
  ASSUME Shape, WakeInv, [Next]_vars, NEW p \in Pids, NEW c \in Pids
  PROVE  Owed(p, c)'
<1>0. TypeOK /\ Reap /\ Owed(p, c)
  BY DEF Shape, WakeInv
<1>1. CASE UNCHANGED vars
  BY <1>0, <1>1, Zenon DEF vars, Owed, Matches, OwesWake
<1>2. ASSUME NEW a \in Pids, Fork(a) PROVE Owed(p, c)'
  <2> SUFFICES ASSUME NEW n, n = next_pid PROVE Owed(p, c)'
    OBVIOUS
  <2>1. /\ n \in Pids /\ pc[n] = "none" /\ pc'[n] = "user" /\ state'[n] = "running"
        /\ \A q \in Pids : q # n => pc'[q] = pc[q] /\ state'[q] = state[q]
        /\ children'[a] = children[a] \cup {n}
        /\ \A q \in Pids : q # a => children'[q] = children[q]
        /\ UNCHANGED <<child_exit_seq, target, snap>>
    BY <1>2, ForkFx
  <2>2. CASE c = n
    BY <2>1, <2>2 DEF Owed
  <2>3. CASE c # n
    <3>1. c \in children'[p] => c \in children[p]
      BY <2>1, <2>3
    <3>2. (OwesWake(c) => OwesWake(c)') /\ (OwesBump(c) => OwesBump(c)')
      BY <2>1, <2>3 DEF OwesWake, OwesBump
    <3>3. pc'[p] \in {"wait_block", "blocked"} => pc'[p] = pc[p]
      BY <2>1
    <3> QED BY <1>0, <2>1, <2>3, <3>1, <3>2, <3>3, OwedFrame
  <2> QED BY <2>2, <2>3
<1>3. ASSUME NEW a \in Pids, ReapChild(a) \/ ReapPtable(a) \/ ReapUnregister(a) \/ ReapFree(a)
      PROVE  Owed(p, c)'
  <2>1. /\ pc[a] \in Reaping /\ pc'[a] \in Reaping \cup {"user"}
        /\ \A q \in Pids : q # a => pc'[q] = pc[q] /\ snap'[q] = snap[q] /\ target'[q] = target[q]
        /\ UNCHANGED child_exit_seq
    <3>1. CASE ReapChild(a)
      BY <3>1, ReapChildFx, Zenon DEF Reaping
    <3>2. CASE ReapPtable(a)
      BY <1>0, <3>2, ReapPtableFx, Zenon DEF Reaping
    <3>3. CASE ReapUnregister(a)
      BY <1>0, <3>3, ReapUnregisterFx, Zenon DEF Reaping
    <3>4. CASE ReapFree(a)
      <4>1. pc[a] = "reap_free" /\ pc'[a] = "user" /\ UNCHANGED child_exit_seq
        BY <1>0, <3>4, ReapFreeFx, Zenon
      <4>2. WaitReturn(a)
        BY <3>4, Zenon DEF ReapFree
      <4>3. ASSUME NEW q \in Pids, q # a
            PROVE  pc'[q] = pc[q] /\ snap'[q] = snap[q] /\ target'[q] = target[q]
        BY <1>0, <4>2, <4>3, WaitReturnFx, Zenon
      <4> QED BY <4>1, <4>3, Zenon DEF Reaping
    <3> QED BY <1>3, <3>1, <3>2, <3>3, <3>4
  <2>2. c \in children'[p] => c \in children[p]
    <3>1. children'[p] = children[p] \/ \E x : children'[p] = children[p] \ {x}
      BY <1>0, <1>3, ReapChildFx, ReapPtableFx, ReapUnregisterFx, ReapFreeFx, Zenon
    <3> QED BY <3>1
  <2>3. state'[c] = "zombie" => state[c] = "zombie"
    BY <1>0, <1>3, ReapChildFx, ReapPtableFx, ReapUnregisterFx, ReapFreeFx, Zenon
  <2>4. (OwesWake(c) => OwesWake(c)') /\ (OwesBump(c) => OwesBump(c)')
    BY <2>1 DEF OwesWake, OwesBump, Reaping
  <2>5. pc'[p] \in {"wait_block", "blocked"} => pc'[p] = pc[p] /\ p # a
    BY <2>1 DEF Reaping
  <2> QED BY <1>0, <2>1, <2>2, <2>3, <2>4, <2>5, OwedFrame
<1>4. ASSUME NEW a \in Pids, ExitZombie(a) PROVE Owed(p, c)'
  <2>1. /\ pc[a] = "exit_zombie" /\ pc'[a] = "exit_code"
        /\ \A q \in Pids : q # a => pc'[q] = pc[q] /\ state'[q] = state[q]
        /\ UNCHANGED <<children, child_exit_seq, target, snap>>
    BY <1>0, <1>4, ExitZombieFx, Zenon
  <2>2. CASE a = c
    BY <2>1, <2>2 DEF Owed, OwesWake
  <2>3. CASE a # c
    <3>1. (OwesWake(c) => OwesWake(c)') /\ (OwesBump(c) => OwesBump(c)')
      BY <2>1, <2>3 DEF OwesWake, OwesBump
    <3>2. pc'[p] \in {"wait_block", "blocked"} => pc'[p] = pc[p]
      BY <2>1
    <3> QED BY <1>0, <2>1, <2>3, <3>1, <3>2, OwedFrame
  <2> QED BY <2>2, <2>3
<1>5. ASSUME NEW a \in Pids, ExitWake(a) PROVE Owed(p, c)'
  <2>1. /\ pc[a] = "exit_wake" /\ pc'[a] = "exit_dead"
        /\ \A q \in Pids : q # a => \/ pc'[q] = pc[q] /\ (pc[q] = "blocked" => q # parent_pid[a])
                                    \/ q = parent_pid[a] /\ pc[q] = "blocked" /\ pc'[q] = "wait_count"
        /\ UNCHANGED <<state, children, child_exit_seq, target, snap>>
    BY <1>5, ExitWakeFx, Zenon
  <2>2. pc'[p] \in {"wait_block", "blocked"} => pc'[p] = pc[p] /\ (pc[p] = "blocked" => parent_pid[a] # p)
    BY <2>1
  <2>3. CASE a = c
    <3>1. c \in children[p] => parent_pid[c] = p
      BY DEF Shape, Kin
    <3> QED BY <1>0, <2>1, <2>2, <2>3, <3>1 DEF Owed, OwesWake, Matches
  <2>4. CASE a # c
    <3>1. (OwesWake(c) => OwesWake(c)') /\ (OwesBump(c) => OwesBump(c)')
      BY <2>1, <2>4 DEF OwesWake, OwesBump
    <3> QED BY <1>0, <2>1, <2>2, <3>1, OwedFrame
  <2> QED BY <2>3, <2>4
<1>6. ASSUME NEW a \in Pids, Fork(a) \/ WaitCall(a) \/ ExitCall(a) \/ WaitStep(a) \/ ExitStep(a)
      PROVE  Owed(p, c)'
  BY <1>0, <1>2, <1>3, <1>4, <1>5, <1>6, WakeMoves, Zenon DEF WaitStep, ExitStep
<1> QED BY <1>1, <1>6, Zenon DEF Next

-----------------------------------------------------------------------------
(* A step that changes only what belongs to p keeps ExitInv if it does not  *)
(* start a reap or free a process, and if where it arrives fits p's state,  *)
(* its code and its parent.                                                 *)
LEMMA ExitFrame ==
  ASSUME Shape, ExitInv, NEW p \in Pids, pc[p] # "gone", UNCHANGED parent_pid,
         \A q \in Pids : q # p => pc'[q] = pc[q] /\ found'[q] = found[q] /\ status'[q] = status[q],
         \A q \in Pids : q # p => state'[q] = state[q] /\ exit_code'[q] = exit_code[q],
         \A q \in Pids : q # p => code'[q] = code[q] /\ masked'[q] = masked[q],
         state'[p] \in {state[p], "zombie"},
         state[p] \in {"zombie", "freed"} => code'[p] = code[p] /\ masked'[p] = masked[p],
         pc'[p] \in Reaping => pc[p] \in Reaping /\ found'[p] = found[p] /\ status'[p] = status[p],
         exit_code'[p] = IF pc'[p] \in Published THEN code'[p] ELSE 0,
         state'[p] \in {"zombie", "freed"} => pc'[p] \in Exiting \cup {"gone"},
         masked'[p] /\ pc'[p] \in {"exit_raise", "exit_bump", "exit_wake"} =>
           parent_pid[p] \in Pids /\ state[parent_pid[p]] # "freed"
  PROVE  ExitInv'
<1>1. ReapSeen'
  <2> SUFFICES ASSUME NEW q \in Pids, pc'[q] \in Reaping
               PROVE  /\ masked'[found'[q]] => pc'[found'[q]] = "gone" /\ status'[q] = code'[found'[q]]
                      /\ status'[q] \in {0, code'[found'[q]]}
    BY Zenon DEF ReapSeen
  <2>1. pc[q] \in Reaping /\ found'[q] = found[q] /\ status'[q] = status[q]
    BY Zenon
  <2>2. found[q] \in Pids /\ state[found[q]] = "zombie"
    BY <2>1, Zenon DEF Shape, Reap, ReapOf
  <2>3. /\ masked[found[q]] => pc[found[q]] = "gone" /\ status[q] = code[found[q]]
        /\ status[q] \in {0, code[found[q]]}
    BY <2>1, Zenon DEF ExitInv, ReapSeen
  <2>4. CASE found[q] # p
    BY <2>1, <2>2, <2>3, <2>4, Zenon
  <2>5. CASE found[q] = p
    <3>1. ~masked[p] /\ code'[p] = code[p] /\ masked'[p] = masked[p]
      BY <2>2, <2>3, <2>5
    <3> QED BY <2>1, <2>3, <2>5, <3>1
  <2> QED BY <2>4, <2>5
<1>2. CodePublished'
  BY Zenon DEF ExitInv, CodePublished
<1>3. ZombiePc'
  BY Zenon DEF ExitInv, ZombiePc
<1>4. MaskedExitWhole'
  <2> SUFFICES ASSUME NEW q \in Pids, masked'[q], state'[q] = "freed"
               PROVE  pc'[q] = "gone"
    BY Zenon DEF MaskedExitWhole
  <2>1. CASE q # p
    BY <2>1, Zenon DEF ExitInv, MaskedExitWhole
  <2>2. CASE q = p
    <3>1. state[p] = "freed" /\ masked[p]
      BY <2>2
    <3> QED BY <3>1 DEF ExitInv, MaskedExitWhole
  <2> QED BY <2>1, <2>2
<1>5. NotifiesLiveParent'
  <2>1. \A q \in Pids : masked[q] /\ pc[q] \in {"exit_raise", "exit_bump", "exit_wake"} =>
          parent_pid[q] \in Pids /\ state[parent_pid[q]] # "freed"
    BY Zenon DEF Shape, Notifying, ExitInv, NotifiesLiveParent
  <2>2. \A q \in Pids : state[q] # "freed" => state'[q] # "freed"
    OBVIOUS
  <2>3. \A q \in Pids : masked'[q] /\ pc'[q] \in {"exit_raise", "exit_bump", "exit_wake"} =>
          parent_pid[q] \in Pids /\ state[parent_pid[q]] # "freed"
    BY <2>1, Zenon
  <2> QED BY <2>2, <2>3, Zenon DEF NotifiesLiveParent
<1> QED BY <1>1, <1>2, <1>3, <1>4, <1>5 DEF ExitInv

(* The steps of wait4 that only move a thread. *)
LEMMA ExitInvWait ==
  ASSUME Shape, ExitInv, NEW p \in Pids,
         WaitCall(p) \/ WaitCount(p) \/ WaitSample(p) \/ WaitScan(p) \/ WaitBlock(p)
  PROVE  ExitInv'
<1>0. TypeOK /\ Queues
  BY DEF Shape
<1>1. /\ Moves(p) /\ pc[p] \in Waiting4 \cup {"user"} /\ UNCHANGED <<exit_code, code, masked>>
      /\ \/ pc'[p] \in Waiting4 \cup {"user"}
         \/ /\ pc'[p] = "reap_child" /\ found'[p] \in Zombies(p) /\ WaitScan(p)
            /\ status'[p] = exit_code[found'[p]]
  <2>1. CASE WaitCall(p)
    BY <1>0, <2>1, WaitCallFx, Zenon DEF Waiting4
  <2>2. CASE WaitCount(p)
    BY <1>0, <2>2, WaitCountFx, Zenon DEF Waiting4
  <2>3. CASE WaitSample(p)
    BY <1>0, <2>3, WaitSampleFx, Zenon DEF Waiting4
  <2>4. CASE WaitScan(p)
    BY <1>0, <2>4, WaitScanFx, Zenon DEF Waiting4
  <2>5. CASE WaitBlock(p)
    BY <1>0, <2>5, WaitBlockFx, Zenon DEF Waiting4
  <2> QED BY <2>1, <2>2, <2>3, <2>4, <2>5
<1>2. state[p] = "running" /\ pc[p] # "gone" /\ pc[p] \notin Published /\ exit_code[p] = 0
  <2>1. state[p] = "running" /\ pc[p] # "gone" /\ pc[p] \notin Published
    BY <1>1 DEF Shape, PcState, Alive, Waiting4, Published
  <2> QED BY <2>1 DEF ExitInv, CodePublished
<1>0a. /\ \A q \in Pids : q # p => pc'[q] = pc[q] /\ found'[q] = found[q] /\ status'[q] = status[q]
       /\ UNCHANGED <<state, parent_pid>>
  BY <1>1 DEF Moves
<1>3. CASE pc'[p] \in Waiting4 \cup {"user"}
  <2>1. /\ pc'[p] \notin Reaping \cup Published \cup {"exit_raise", "exit_bump", "exit_wake"}
        /\ state'[p] \notin {"zombie", "freed"} /\ exit_code'[p] = 0
    BY <1>0a, <1>1, <1>2, <1>3 DEF Waiting4, Reaping, Published
  <2>2. \A q \in Pids : q # p => state'[q] = state[q] /\ exit_code'[q] = exit_code[q]
    BY <1>0a, <1>1, Zenon
  <2>3. \A q \in Pids : q # p => code'[q] = code[q] /\ masked'[q] = masked[q]
    BY <1>1, Zenon
  <2>4. exit_code'[p] = IF pc'[p] \in Published THEN code'[p] ELSE 0
    BY <2>1, Zenon
  <2>5. state'[p] \in {state[p], "zombie"} /\ state[p] \notin {"zombie", "freed"}
    BY <1>0a, <1>2
  <2> QED BY <1>0a, <1>2, <2>1, <2>2, <2>3, <2>4, <2>5, ExitFrame, Zenon
<1>4. CASE pc'[p] = "reap_child" /\ found'[p] \in Zombies(p) /\ WaitScan(p) /\ status'[p] = exit_code[found'[p]]
  <2>1. found'[p] \in Pids /\ state[found'[p]] = "zombie" /\ found'[p] # p
    BY <1>2, <1>4 DEF Zombies, Shape, TypeOK
  <2>2. \A q \in Pids \ {p} : pc[q] \in Exiting => ~masked[q]
    BY <1>4 DEF WaitScan, At
  <2>3. /\ masked[found'[p]] => pc[found'[p]] = "gone" /\ exit_code[found'[p]] = code[found'[p]]
        /\ exit_code[found'[p]] \in {0, code[found'[p]]}
    <3>1. pc[found'[p]] \in Exiting \cup {"gone"}
      BY <2>1, Zenon DEF ExitInv, ZombiePc
    <3>2. exit_code[found'[p]] = IF pc[found'[p]] \in Published THEN code[found'[p]] ELSE 0
      BY <2>1, Zenon DEF ExitInv, CodePublished
    <3>3. "gone" \in Published
      BY DEF Published
    <3> QED BY <2>1, <2>2, <3>1, <3>2, <3>3
  <2>4. ReapSeen'
    <3> SUFFICES ASSUME NEW q \in Pids, pc'[q] \in Reaping
                 PROVE  /\ masked'[found'[q]] => pc'[found'[q]] = "gone" /\ status'[q] = code'[found'[q]]
                        /\ status'[q] \in {0, code'[found'[q]]}
      BY Zenon DEF ReapSeen
    <3>1. CASE q = p
      BY <1>0a, <1>1, <1>4, <2>1, <2>3, <3>1
    <3>2. CASE q # p
      <4>1. pc[q] \in Reaping /\ found'[q] = found[q] /\ status'[q] = status[q]
        BY <1>0a, <3>2, Zenon
      <4>2. found[q] \in Pids /\ found[q] # p
        BY <1>2, <4>1 DEF Shape, Reap, ReapOf
      <4>3. /\ masked[found[q]] => pc[found[q]] = "gone" /\ status[q] = code[found[q]]
            /\ status[q] \in {0, code[found[q]]}
        BY <4>1, Zenon DEF ExitInv, ReapSeen
      <4> QED BY <1>0a, <1>1, <4>1, <4>2, <4>3, Zenon
    <3> QED BY <3>1, <3>2
  <2>5. CodePublished'
    <3>1. pc'[p] \notin Published /\ pc[p] \notin Published
      BY <1>2, <1>4 DEF Published
    <3> QED BY <1>0a, <1>1, <3>1, Zenon DEF ExitInv, CodePublished
  <2>6. ZombiePc'
    BY <1>0a, <1>2 DEF ExitInv, ZombiePc
  <2>7. MaskedExitWhole'
    BY <1>0a, <1>1, <1>2 DEF ExitInv, MaskedExitWhole
  <2>8. NotifiesLiveParent'
    BY <1>0a, <1>1, <1>4 DEF ExitInv, NotifiesLiveParent
  <2> QED BY <2>4, <2>5, <2>6, <2>7, <2>8 DEF ExitInv
<1> QED BY <1>1, <1>3, <1>4

(* The steps of reap_zombie up to the frees. *)
LEMMA ExitInvReap ==
  ASSUME Shape, ExitInv, NEW p \in Pids, ReapChild(p) \/ ReapPtable(p) \/ ReapUnregister(p)
  PROVE  ExitInv'
<1>0. TypeOK
  BY DEF Shape
<1>1. /\ pc[p] \in Reaping /\ pc'[p] \in Reaping /\ \A q \in Pids : q # p => pc'[q] = pc[q]
      /\ UNCHANGED <<state, parent_pid, exit_code, found, status, code, masked>>
  <2>1. CASE ReapChild(p)
    BY <2>1, ReapChildFx, Zenon DEF Reaping
  <2>2. CASE ReapPtable(p)
    BY <1>0, <2>2, ReapPtableFx, Zenon DEF Reaping
  <2>3. CASE ReapUnregister(p)
    BY <1>0, <2>3, ReapUnregisterFx, Zenon DEF Reaping
  <2> QED BY <2>1, <2>2, <2>3
<1>2. state[p] = "running"
  BY <1>1 DEF Shape, PcState, Alive
<1>3. /\ pc[p] # "gone" /\ pc[p] \notin Published
      /\ pc'[p] \notin Published \cup {"exit_raise", "exit_bump", "exit_wake"}
  BY <1>1 DEF Reaping, Published
<1>4. exit_code'[p] = IF pc'[p] \in Published THEN code'[p] ELSE 0
  BY <1>1, <1>3, Zenon DEF ExitInv, CodePublished
<1>5. \A q \in Pids : q # p => pc'[q] = pc[q] /\ found'[q] = found[q] /\ status'[q] = status[q]
  BY <1>1, Zenon
<1>6. \A q \in Pids : /\ state'[q] = state[q] /\ exit_code'[q] = exit_code[q]
                      /\ code'[q] = code[q] /\ masked'[q] = masked[q]
  BY <1>1, Zenon
<1>7. state'[p] \in {state[p], "zombie"} /\ state'[p] \notin {"zombie", "freed"}
  BY <1>1, <1>2
<1> QED BY <1>1, <1>3, <1>4, <1>5, <1>6, <1>7, ExitFrame, Zenon

(* The frees: only a process whose exit is over is freed. *)
LEMMA ExitInvFree ==
  ASSUME Shape, ExitInv, NEW p \in Pids, ReapFree(p)
  PROVE  ExitInv'
<1>0. TypeOK /\ Reap
  BY DEF Shape
<1>1. /\ pc[p] = "reap_free" /\ pc'[p] = "user" /\ found[p] \in Pids
      /\ state[found[p]] = "zombie" /\ state'[found[p]] = "freed"
      /\ \A q \in Pids : q # found[p] => state'[q] = state[q]
      /\ \A q \in Pids : q # p => pc'[q] = pc[q] /\ found'[q] = found[q] /\ status'[q] = status[q]
      /\ UNCHANGED <<parent_pid, exit_code, code, masked>>
  BY <1>0, ReapFreeFx
<1>2. /\ state[p] = "running" /\ found[p] # p
      /\ pc[found[p]] \in Exiting \cup {"gone"} /\ (masked[found[p]] => pc[found[p]] = "gone")
  BY <1>1 DEF ExitInv, ReapSeen, ZombiePc, Reaping, Shape, PcState, Alive
<1>3. ReapSeen'
  <2> SUFFICES ASSUME NEW q \in Pids, pc'[q] \in Reaping
               PROVE  /\ masked'[found'[q]] => pc'[found'[q]] = "gone" /\ status'[q] = code'[found'[q]]
                      /\ status'[q] \in {0, code'[found'[q]]}
    BY Zenon DEF ReapSeen
  <2>1. q # p
    BY <1>1 DEF Reaping
  <2>2. pc[q] \in Reaping /\ found'[q] = found[q] /\ status'[q] = status[q]
    BY <1>1, <2>1, Zenon
  <2>3. found[q] \in Pids /\ found[q] # p
    BY <1>0, <1>2, <2>2 DEF Reap, ReapOf
  <2>4. /\ masked[found[q]] => pc[found[q]] = "gone" /\ status[q] = code[found[q]]
        /\ status[q] \in {0, code[found[q]]}
    BY <2>2, Zenon DEF ExitInv, ReapSeen
  <2> QED BY <1>1, <2>2, <2>3, <2>4, Zenon
<1>4. CodePublished'
  <2>1. pc[p] \notin Published /\ pc'[p] \notin Published
    BY <1>1 DEF Published
  <2> QED BY <1>1, <2>1, Zenon DEF ExitInv, CodePublished
<1>5. ZombiePc'
  BY <1>1, <1>2 DEF ExitInv, ZombiePc
<1>6. MaskedExitWhole'
  BY <1>1, <1>2 DEF ExitInv, MaskedExitWhole
<1>7. NotifiesLiveParent'
  <2>1. \A q \in Pids \ {p} : pc[q] \in Exiting => ~masked[q]
    BY DEF ReapFree, At
  <2> QED BY <1>1, <2>1 DEF NotifiesLiveParent, Exiting
<1> QED BY <1>3, <1>4, <1>5, <1>6, <1>7 DEF ExitInv

(* The steps of exit up to its wake, and the last one. *)
LEMMA ExitInvExit ==
  ASSUME Shape, ExitInv, NEW p \in Pids,
         \/ ExitCall(p) \/ ExitZombie(p) \/ ExitCode(p) \/ ExitFind(p)
         \/ ExitRaise(p) \/ ExitBump(p) \/ ExitDead(p)
  PROVE  ExitInv'
<1>0. TypeOK /\ Notifying
  BY DEF Shape
<1>1. /\ exit_code[p] = IF pc[p] \in Published THEN code[p] ELSE 0
      /\ masked[p] /\ pc[p] \in {"exit_raise", "exit_bump", "exit_wake"} =>
           parent_pid[p] \in Pids /\ state[parent_pid[p]] # "freed"
      /\ pc[p] \in {"user", "exit_zombie"} => state[p] = "running"
  BY DEF ExitInv, CodePublished, NotifiesLiveParent, Shape, Notifying, PcState, Alive
<1>2. CASE ExitCall(p)
  <2>1. /\ pc[p] = "user" /\ pc'[p] = "exit_zombie"
        /\ \A q \in Pids : q # p => pc'[q] = pc[q] /\ code'[q] = code[q] /\ masked'[q] = masked[q]
        /\ UNCHANGED <<state, parent_pid, exit_code, found, status>>
    BY <1>0, <1>2, ExitCallFx, Zenon DEF Moves
  <2>2. /\ pc[p] # "gone" /\ pc'[p] \notin Reaping \cup Published \cup {"exit_raise", "exit_bump", "exit_wake"}
        /\ pc[p] \notin Published /\ state'[p] = "running" /\ state[p] = "running"
    BY <1>1, <2>1 DEF Reaping, Published
  <2>3. \A q \in Pids : q # p => pc'[q] = pc[q] /\ found'[q] = found[q] /\ status'[q] = status[q]
    BY <2>1, Zenon
  <2>4. \A q \in Pids : q # p => state'[q] = state[q] /\ exit_code'[q] = exit_code[q]
    BY <2>1, Zenon
  <2>5. \A q \in Pids : q # p => code'[q] = code[q] /\ masked'[q] = masked[q]
    BY <2>1, Zenon
  <2>6. exit_code'[p] = IF pc'[p] \in Published THEN code'[p] ELSE 0
    BY <1>1, <2>1, <2>2
  <2>7. state'[p] \in {state[p], "zombie"} /\ state[p] \notin {"zombie", "freed"} /\ state'[p] \notin {"zombie", "freed"}
    BY <2>2
  <2> QED BY <2>1, <2>2, <2>3, <2>4, <2>5, <2>6, <2>7, ExitFrame, Zenon
<1>3. CASE ExitZombie(p)
  <2>1. /\ pc[p] = "exit_zombie" /\ pc'[p] = "exit_code" /\ state'[p] = "zombie"
        /\ \A q \in Pids : q # p => pc'[q] = pc[q] /\ state'[q] = state[q]
        /\ UNCHANGED <<parent_pid, exit_code, found, status, code, masked>>
    BY <1>0, <1>3, ExitZombieFx, Zenon
  <2>2. /\ pc[p] # "gone" /\ pc'[p] \notin Reaping \cup Published \cup {"exit_raise", "exit_bump", "exit_wake"}
        /\ pc[p] \notin Published /\ pc'[p] \in Exiting \cup {"gone"} /\ state'[p] \in {state[p], "zombie"}
    BY <2>1 DEF Reaping, Published, Exiting
  <2>3. \A q \in Pids : q # p => pc'[q] = pc[q] /\ found'[q] = found[q] /\ status'[q] = status[q]
    BY <2>1, Zenon
  <2>4. \A q \in Pids : q # p => state'[q] = state[q] /\ exit_code'[q] = exit_code[q]
    BY <2>1, Zenon
  <2>5. \A q \in Pids : q # p => code'[q] = code[q] /\ masked'[q] = masked[q]
    BY <2>1, Zenon
  <2>6. exit_code'[p] = IF pc'[p] \in Published THEN code'[p] ELSE 0
    BY <1>1, <2>1, <2>2
  <2> QED BY <2>1, <2>2, <2>3, <2>4, <2>5, <2>6, ExitFrame, Zenon
<1>4. CASE ExitCode(p)
  <2>1. /\ pc[p] = "exit_code" /\ pc'[p] = "exit_find" /\ exit_code'[p] = code[p]
        /\ \A q \in Pids : q # p => pc'[q] = pc[q] /\ exit_code'[q] = exit_code[q]
        /\ UNCHANGED <<state, parent_pid, found, status, code, masked>>
    BY <1>0, <1>4, ExitCodeFx, Zenon DEF Moves
  <2>2. /\ pc[p] # "gone" /\ pc'[p] \notin Reaping \cup {"exit_raise", "exit_bump", "exit_wake"}
        /\ pc'[p] \in Published /\ pc'[p] \in Exiting \cup {"gone"} /\ state'[p] \in {state[p], "zombie"}
    BY <2>1 DEF Reaping, Published, Exiting
  <2>3. \A q \in Pids : q # p => pc'[q] = pc[q] /\ found'[q] = found[q] /\ status'[q] = status[q]
    BY <2>1, Zenon
  <2>4. \A q \in Pids : q # p => state'[q] = state[q] /\ exit_code'[q] = exit_code[q]
    BY <2>1, Zenon
  <2>5. \A q \in Pids : q # p => code'[q] = code[q] /\ masked'[q] = masked[q]
    BY <2>1, Zenon
  <2>6. exit_code'[p] = IF pc'[p] \in Published THEN code'[p] ELSE 0
    BY <2>1, <2>2
  <2> QED BY <2>1, <2>2, <2>3, <2>4, <2>5, <2>6, ExitFrame, Zenon
<1>5. CASE ExitFind(p)
  <2>1. /\ pc[p] = "exit_find" /\ pc'[p] = IF parent_pid[p] \in ptable THEN "exit_raise" ELSE "exit_dead"
        /\ \A q \in Pids : q # p => pc'[q] = pc[q]
        /\ UNCHANGED <<state, parent_pid, exit_code, found, status, code, masked>>
    BY <1>0, <1>5, ExitFindFx, Zenon DEF Moves
  <2>2. /\ pc[p] # "gone" /\ pc'[p] \notin Reaping /\ pc[p] \in Published
        /\ pc'[p] \in Published /\ pc'[p] \in Exiting \cup {"gone"} /\ state'[p] \in {state[p], "zombie"}
        /\ pc'[p] \in {"exit_raise", "exit_bump", "exit_wake"} => parent_pid[p] \in ptable
    BY <2>1 DEF Reaping, Published, Exiting
  <2>3. \A q \in Pids : q # p => pc'[q] = pc[q] /\ found'[q] = found[q] /\ status'[q] = status[q]
    BY <2>1, Zenon
  <2>4. \A q \in Pids : q # p => state'[q] = state[q] /\ exit_code'[q] = exit_code[q]
    BY <2>1, Zenon
  <2>5. \A q \in Pids : q # p => code'[q] = code[q] /\ masked'[q] = masked[q]
    BY <2>1, Zenon
  <2>6. exit_code'[p] = IF pc'[p] \in Published THEN code'[p] ELSE 0
    BY <1>1, <2>1, <2>2
  <2>7. parent_pid[p] \in ptable => parent_pid[p] \in Pids /\ state[parent_pid[p]] # "freed"
    BY Zenon DEF Shape, Kin, TypeOK
  <2> QED BY <2>1, <2>2, <2>3, <2>4, <2>5, <2>6, <2>7, ExitFrame, Zenon
<1>6. CASE ExitRaise(p) \/ ExitBump(p) \/ ExitDead(p)
  <2>0. /\ \/ pc[p] = "exit_raise" /\ pc'[p] = "exit_bump"
           \/ pc[p] = "exit_bump" /\ pc'[p] = "exit_wake"
           \/ pc[p] = "exit_dead" /\ pc'[p] = "gone"
        /\ Moves(p) /\ UNCHANGED <<exit_code, found, status, code, masked>>
    BY <1>0, <1>6, ExitRaiseFx, ExitBumpFx, ExitDeadFx, Zenon
  <2>1. /\ \A q \in Pids : q # p => pc'[q] = pc[q]
        /\ UNCHANGED <<state, parent_pid, exit_code, found, status, code, masked>>
    BY <2>0, Zenon DEF Moves
  <2>2. /\ pc[p] # "gone" /\ pc'[p] \notin Reaping /\ pc[p] \in Published
        /\ pc'[p] \in Published /\ pc'[p] \in Exiting \cup {"gone"} /\ state'[p] \in {state[p], "zombie"}
        /\ pc'[p] \in {"exit_raise", "exit_bump", "exit_wake"} => pc[p] \in {"exit_raise", "exit_bump", "exit_wake"}
    BY <2>0, <2>1 DEF Reaping, Published, Exiting
  <2>3. \A q \in Pids : q # p => pc'[q] = pc[q] /\ found'[q] = found[q] /\ status'[q] = status[q]
    BY <2>1, Zenon
  <2>4. \A q \in Pids : q # p => state'[q] = state[q] /\ exit_code'[q] = exit_code[q]
    BY <2>1, Zenon
  <2>5. \A q \in Pids : q # p => code'[q] = code[q] /\ masked'[q] = masked[q]
    BY <2>1, Zenon
  <2>6. exit_code'[p] = IF pc'[p] \in Published THEN code'[p] ELSE 0
    BY <1>1, <2>1, <2>2
  <2>7. masked'[p] /\ pc'[p] \in {"exit_raise", "exit_bump", "exit_wake"} => parent_pid[p] \in Pids /\ state[parent_pid[p]] # "freed"
    BY <1>1, <2>1, <2>2, Zenon
  <2> QED BY <2>1, <2>2, <2>3, <2>4, <2>5, <2>6, <2>7, ExitFrame, Zenon
<1> QED BY <1>2, <1>3, <1>4, <1>5, <1>6

(* Every step keeps ExitInv. *)
LEMMA ExitInvStep ==
  ASSUME Shape, ExitInv, [Next]_vars
  PROVE  ExitInv'
<1>1. CASE UNCHANGED vars
  BY <1>1, Zenon DEF vars, ExitInv, ReapSeen, CodePublished, ZombiePc, MaskedExitWhole, NotifiesLiveParent
<1>2. ASSUME NEW p \in Pids, Fork(p) PROVE ExitInv'
  <2> SUFFICES ASSUME NEW n, n = next_pid PROVE ExitInv'
    OBVIOUS
  <2>1. /\ n \in Pids /\ pc[n] = "none" /\ pc'[n] = "user" /\ state'[n] = "running" /\ state[n] = "none"
        /\ \A q \in Pids : q # n => pc'[q] = pc[q] /\ state'[q] = state[q] /\ parent_pid'[q] = parent_pid[q]
        /\ UNCHANGED <<exit_code, found, status, code, masked>>
    <3>1. n \in Pids /\ pc[n] = "none" /\ pc'[n] = "user" /\ state'[n] = "running" /\ state[n] = "none"
      BY <1>2, ForkFx
    <3>2. \A q \in Pids : q # n => pc'[q] = pc[q] /\ state'[q] = state[q] /\ parent_pid'[q] = parent_pid[q]
      BY <1>2, ForkFx
    <3>3. UNCHANGED <<exit_code, found, status, code, masked>>
      BY <1>2, ForkFx
    <3> QED BY <3>1, <3>2, <3>3
  <2>2. ReapSeen'
    <3> SUFFICES ASSUME NEW q \in Pids, pc'[q] \in Reaping
                 PROVE  /\ masked[found[q]] => pc'[found[q]] = "gone" /\ status[q] = code[found[q]]
                        /\ status[q] \in {0, code[found[q]]}
      BY <2>1, Zenon DEF ReapSeen
    <3>1. pc[q] \in Reaping
      BY <2>1 DEF Reaping
    <3>2. found[q] \in Pids /\ found[q] # n
      BY <2>1, <3>1 DEF Shape, Reap, ReapOf
    <3> QED BY <2>1, <3>1, <3>2, Zenon DEF ExitInv, ReapSeen
  <2>3. CodePublished'
    <3>1. pc[n] \notin Published /\ pc'[n] \notin Published
      BY <2>1 DEF Published
    <3> QED BY <2>1, <3>1, Zenon DEF ExitInv, CodePublished
  <2>4. ZombiePc'
    BY <2>1 DEF ExitInv, ZombiePc
  <2>5. MaskedExitWhole'
    BY <2>1 DEF ExitInv, MaskedExitWhole
  <2>6. NotifiesLiveParent'
    <3>1. \A q \in Pids : masked'[q] /\ pc'[q] \in {"exit_raise", "exit_bump", "exit_wake"} =>
            q # n /\ parent_pid[q] \in Pids /\ state[parent_pid[q]] # "freed"
      BY <2>1 DEF ExitInv, NotifiesLiveParent, Shape, Notifying
    <3>2. \A q \in Pids : state[q] # "freed" => state'[q] # "freed"
      BY <2>1
    <3> QED BY <2>1, <3>1, <3>2 DEF NotifiesLiveParent
  <2> QED BY <2>2, <2>3, <2>4, <2>5, <2>6 DEF ExitInv
<1>3. ASSUME NEW p \in Pids, ExitWake(p) PROVE ExitInv'
  <2>1. /\ pc[p] = "exit_wake" /\ pc'[p] = "exit_dead"
        /\ \A q \in Pids : q # p => pc'[q] = pc[q] \/ (pc[q] = "blocked" /\ pc'[q] = "wait_count")
        /\ UNCHANGED <<state, parent_pid, exit_code, found, status, code, masked>>
    BY <1>3, ExitWakeFx, Zenon
  <2>2. ReapSeen'
    <3>1. \A q \in Pids : pc'[q] \in Reaping => pc[q] \in Reaping /\ found[q] \in Pids
      BY <2>1 DEF Shape, Reap, ReapOf, Reaping
    <3>2. \A q \in Pids : pc[q] = "gone" => pc'[q] = "gone"
      BY <2>1
    <3> QED BY <2>1, <3>1, <3>2, Zenon DEF ExitInv, ReapSeen
  <2>3. CodePublished'
    <3>1. \A q \in Pids : pc'[q] \in Published <=> pc[q] \in Published
      BY <2>1 DEF Published
    <3> QED BY <2>1, <3>1, Zenon DEF ExitInv, CodePublished
  <2>4. ZombiePc'
    <3>1. \A q \in Pids : pc[q] = "blocked" => state[q] = "running"
      BY DEF Shape, PcState, Alive, Waiting4
    <3> QED BY <2>1, <3>1 DEF ExitInv, ZombiePc, Exiting
  <2>5. MaskedExitWhole'
    BY <2>1 DEF ExitInv, MaskedExitWhole
  <2>6. NotifiesLiveParent'
    BY <2>1 DEF ExitInv, NotifiesLiveParent
  <2> QED BY <2>2, <2>3, <2>4, <2>5, <2>6 DEF ExitInv
<1>4. ASSUME NEW p \in Pids, Fork(p) \/ WaitCall(p) \/ ExitCall(p) \/ WaitStep(p) \/ ExitStep(p)
      PROVE  ExitInv'
  BY <1>2, <1>3, <1>4, ExitInvWait, ExitInvReap, ExitInvFree, ExitInvExit, Zenon DEF WaitStep, ExitStep
<1> QED BY <1>1, <1>4, Zenon DEF Next

-----------------------------------------------------------------------------
LEMMA IInvInit == Init => IInv
<1> SUFFICES ASSUME Init PROVE IInv
  OBVIOUS
<1>1. 1 \in Pids /\ Allocated = {1}
  BY ProcLifeAssumption DEF Init, Allocated, Pids
<1>2. TypeOK
  BY <1>1, ProcLifeAssumption DEF Init, TypeOK, Labels, Any, Pids
<1>3. PcState /\ Kin
  BY <1>1 DEF Init, PcState, Kin, Alive, Waiting4, Reaping
<1>4. Counts
  BY FS_EmptySet DEF Init, Counts
<1>5. Reap /\ Queues /\ Notifying /\ Snaps
  BY DEF Init, Reap, ReapOf, Reaping, Queues, Notifying, Snaps
<1>6. WakeInv
  BY DEF Init, WakeInv, Owed
<1> QED BY <1>2, <1>3, <1>4, <1>5, <1>6 DEF IInv, Shape

LEMMA IInvStep ==
  ASSUME BucketsSuffice PROVE IInv /\ [Next]_vars => IInv'
<1> SUFFICES ASSUME IInv, [Next]_vars PROVE IInv'
  OBVIOUS
<1>1. Shape /\ WakeInv
  BY DEF IInv
<1>2. Shape'
  BY <1>1, ShapeStep
<1>3. \A p, c \in Pids : Owed(p, c)'
  BY <1>1, WakeStep
<1>4. WakeInv'
  BY <1>3 DEF WakeInv
<1> QED BY <1>2, <1>4 DEF IInv

LEMMA ExitInvInit == Init => ExitInv
BY DEF Init, ExitInv, ReapSeen, CodePublished, ZombiePc, MaskedExitWhole,
       NotifiesLiveParent, Reaping, Published

(* The process state keeps its type through any interleaving of forks,     *)
(* exits and waits.                                                        *)
THEOREM ProcTypeCorrect ==
  ASSUME BucketsSuffice PROVE Spec => []TypeOK
<1>1. IInv => TypeOK
  BY DEF IInv, Shape
<1> QED BY IInvInit, IInvStep, <1>1, PTL DEF Spec

(* A parent asleep in wait4 misses no exit, however exit's store of Zombie, *)
(* its bump of child_exit_seq and its wake fall between wait4's sample,     *)
(* scan and thread_block_if.                                                *)
THEOREM NoExitMissed ==
  ASSUME BucketsSuffice PROVE Spec => []NoLostChildExit
<1>1. IInv => NoLostChildExit
  BY DEF IInv, WakeInv, Owed, NoLostChildExit, Shape, TypeOK
<1> QED BY IInvInit, IInvStep, <1>1, PTL DEF Spec

(* Between the steps of reap_zombie no table and no children list names a  *)
(* freed Process frame.                                                    *)
THEOREM TablesNeverDangle ==
  ASSUME BucketsSuffice PROVE Spec => []NoDanglingEntry
<1>1. IInv => NoDanglingEntry
  BY DEF IInv, Shape, Kin, NoDanglingEntry
<1> QED BY IInvInit, IInvStep, <1>1, PTL DEF Spec

LEMMA ExitInvAlways ==
  ASSUME BucketsSuffice PROVE Spec => []ExitInv
<1>1. IInv => Shape
  BY DEF IInv
<1>2. Shape /\ ExitInv /\ [Next]_vars => ExitInv'
  BY ExitInvStep, Zenon
<1> QED BY IInvInit, IInvStep, ExitInvInit, <1>1, <1>2, PTL DEF Spec

(* reap_zombie frees the process of a masked exit only after its last      *)
(* schedule(), whatever unmasked exits of other processes do meanwhile.    *)
THEOREM ReapIsSafe ==
  ASSUME BucketsSuffice PROVE Spec => []MaskedExitWhole
<1>1. ExitInv => MaskedExitWhole
  BY DEF ExitInv
<1> QED BY ExitInvAlways, <1>1, PTL

(* wait4 reports the code the child passed to exit, or 0 of an unmasked    *)
(* exit it met between the stores of Zombie and of the code.               *)
THEOREM StatusIsExact ==
  ASSUME BucketsSuffice PROVE Spec => []StatusIsExitCode
<1>1. ExitInv => StatusIsExitCode
  BY DEF ExitInv, ReapSeen, StatusIsExitCode
<1> QED BY ExitInvAlways, <1>1, PTL

(* The parent that a masked exit found in ptable is no freed frame while   *)
(* the exit signals, bumps and wakes it, though the parent's own exit may  *)
(* be unmasked and under way.                                              *)
THEOREM ParentIsLive ==
  ASSUME BucketsSuffice PROVE Spec => []NotifiesLiveParent
<1>1. ExitInv => NotifiesLiveParent
  BY DEF ExitInv
<1> QED BY ExitInvAlways, <1>1, PTL
=============================================================================
