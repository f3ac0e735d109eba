----------------------------- MODULE ProcLifeSteps ----------------------------
(***************************************************************************)
(* The invariant behind the proofs about ProcLife, and what each of its    *)
(* steps changes: the Fx lemma of an action is all that the later proofs,  *)
(* here and in ProcLifeProofs, use of it.                                  *)
(***************************************************************************)
EXTENDS ProcLife, FiniteSetTheorems, TLAPS

(* No ptable bucket overflows. *)
BucketsSuffice == MaxPid <= PtableCap

Allocated == 1..(next_pid - 1)

Alive == {"user", "exit_zombie"} \cup Waiting4 \cup Reaping

(* The program counter and Process.state tell the same story. *)
PcState ==
  \A p \in Pids :
    /\ pc[p] = "none" <=> p \notin Allocated
    /\ state[p] = "none" <=> p \notin Allocated
    /\ pc[p] \in Alive => state[p] = "running"
    /\ state[p] = "running" => pc[p] \in Alive

(* Who is where: a running process is in ptable; a child on a list is in    *)
(* ptable, not freed, and is on its own parent's list.                      *)
Kin ==
  /\ ptable \subseteq Allocated
  /\ \A p \in Pids : state[p] = "running" => p \in ptable
  /\ \A p \in ptable \cup registered : state[p] \in {"running", "zombie"}
  /\ \A p \in Pids : \A c \in children[p] :
       c \in ptable /\ parent_pid[c] = p /\ state[c] \in {"running", "zombie"}

(* A parent in the middle of a reap: how far the child is out of the tables. *)
ReapOf(p) ==
  pc[p] \in Reaping =>
    /\ found[p] \in Pids
    /\ state[found[p]] = "zombie"
    /\ parent_pid[found[p]] = p
    /\ pc[p] = "reap_child" => found[p] \in children[p]
    /\ pc[p] # "reap_child" => found[p] \notin children[p]
    /\ pc[p] \in {"reap_table", "reap_free"} => found[p] \notin ptable
    /\ pc[p] = "reap_free" => found[p] \notin registered

Reap == \A p \in Pids : ReapOf(p)

(* child_count is the number of children: wait4's ECHILD test is exact. *)
Counts == \A p \in Pids : child_count[p] = Cardinality(children[p])

(* A wait queue holds its owner exactly while the owner sleeps. *)
Queues == \A p \in Pids : wait_queue[p] = IF pc[p] = "blocked" THEN <<p>> ELSE << >>

(* A child that is going to notify someone has a parent. *)
Notifying ==
  \A c \in Pids : pc[c] \in {"exit_raise", "exit_bump", "exit_wake"} => parent_pid[c] \in Pids

Snaps == \A p \in Pids : snap[p] <= child_exit_seq[p]

Shape == TypeOK /\ PcState /\ Kin /\ Reap /\ Counts /\ Queues /\ Notifying /\ Snaps


(* Forking into a bucket with room makes the child findable. *)
LEMMA InsertFact ==
  ASSUME BucketsSuffice, ptable \subseteq Pids, NEW c \in Pids, c \notin ptable
  PROVE  PtableInsert(c) = ptable \cup {c}
<1>1. IsFiniteSet(Pids) /\ Cardinality(Pids) = MaxPid
  BY FS_Interval, ProcLifeAssumption DEF Pids
<1>2. IsFiniteSet(ptable)
  BY <1>1, FS_Subset
<1>3. IsFiniteSet(ptable \cup {c}) /\ Cardinality(ptable \cup {c}) = Cardinality(ptable) + 1
  BY <1>2, FS_AddElement
<1>4. Cardinality(ptable \cup {c}) <= Cardinality(Pids)
  BY <1>1, FS_Subset
<1>5. Cardinality(ptable) \in Nat
  BY <1>2, FS_CardinalityType
<1> QED BY <1>1, <1>3, <1>4, <1>5, ProcLifeAssumption DEF BucketsSuffice, PtableInsert

(* Waking a queue of one, and an empty queue. *)
LEMMA WakeSingle ==
  ASSUME NEW q
  PROVE  /\ WakeOne(<<q>>) = Outcome(<< >>, {q}) /\ WakeOne(<< >>) = Outcome(<< >>, {})
         /\ WakeOne(<<q>>).woken = {q} /\ WakeOne(<< >>).woken = {}
         /\ WakeOne(<<q>>).left = << >> /\ WakeOne(<< >>).left = << >>
<1>1. WakeOne(<<q>>) = Outcome(<< >>, {q}) /\ WakeOne(<< >>) = Outcome(<< >>, {})
  BY DEF WakeOne
<1>2. /\ Outcome(<< >>, {q}).woken = {q} /\ Outcome(<< >>, {}).woken = {}
      /\ Outcome(<< >>, {q}).left = << >> /\ Outcome(<< >>, {}).left = << >>
  BY DEF Outcome
<1> QED BY <1>1, <1>2, Zenon

(* Cardinalities of children lists. *)
LEMMA CountFacts ==
  ASSUME NEW S \in SUBSET Pids, NEW c \in Pids
  PROVE  /\ Cardinality(S) \in Nat
         /\ c \notin S => Cardinality(S \cup {c}) = Cardinality(S) + 1
         /\ c \in S => Cardinality(S \ {c}) = Cardinality(S) - 1 /\ Cardinality(S) > 0
<1>1. IsFiniteSet(Pids)
  BY FS_Interval, ProcLifeAssumption DEF Pids
<1>2. IsFiniteSet(S)
  BY <1>1, FS_Subset
<1>3. Cardinality(S) \in Nat
  BY <1>2, FS_CardinalityType
<1>4. c \notin S => Cardinality(S \cup {c}) = Cardinality(S) + 1
  BY <1>2, FS_AddElement
<1>5. c \in S => Cardinality(S \ {c}) = Cardinality(S) - 1
  BY <1>2, FS_RemoveElement
<1>6. c \in S => Cardinality(S) # 0
  BY <1>2, FS_EmptySet
<1> QED BY <1>3, <1>4, <1>5, <1>6

-----------------------------------------------------------------------------
(* What the steps change.  A step of p that moves p's thread: the threads   *)
(* and the calls of the others, the tables and the family stay.             *)
Moves(p) ==
  /\ \A q \in Pids : q # p => /\ pc'[q] = pc[q] /\ found'[q] = found[q] /\ status'[q] = status[q]
                              /\ snap'[q] = snap[q] /\ target'[q] = target[q]
  /\ UNCHANGED <<next_pid, state, parent_pid, children, child_count, ptable, registered>>

LEMMA GotoFx ==
  ASSUME TypeOK, NEW p \in Pids, NEW l \in Labels, Goto(p, l)
  PROVE  pc' \in [Pids -> Labels] /\ pc'[p] = l /\ \A q \in Pids : q # p => pc'[q] = pc[q]
BY DEF TypeOK, Goto

LEMMA WaitReturnFx ==
  ASSUME TypeOK, NEW p \in Pids, WaitReturn(p)
  PROVE  /\ pc' \in [Pids -> Labels] /\ pc'[p] = "user"
         /\ target' \in [Pids -> Pids \cup {Any}] /\ nohang' \in [Pids -> BOOLEAN]
         /\ snap' \in [Pids -> Nat] /\ snap'[p] = 0
         /\ found' \in [Pids -> Pids \cup {Any}] /\ status' \in [Pids -> Codes \cup {0}]
         /\ \A q \in Pids : q # p => /\ pc'[q] = pc[q] /\ found'[q] = found[q] /\ status'[q] = status[q]
                                    /\ snap'[q] = snap[q] /\ target'[q] = target[q]
<1>1. /\ pc' \in [Pids -> Labels] /\ pc'[p] = "user"
      /\ \A q \in Pids : q # p => pc'[q] = pc[q]
  BY GotoFx DEF WaitReturn, Labels
<1>2. /\ target' \in [Pids -> Pids \cup {Any}]
      /\ \A q \in Pids : q # p => target'[q] = target[q]
  BY DEF TypeOK, WaitReturn
<1>3. /\ found' \in [Pids -> Pids \cup {Any}]
      /\ \A q \in Pids : q # p => found'[q] = found[q]
  BY DEF TypeOK, WaitReturn
<1>4. nohang' \in [Pids -> BOOLEAN]
  BY DEF TypeOK, WaitReturn
<1>5. /\ snap' \in [Pids -> Nat] /\ snap'[p] = 0
      /\ \A q \in Pids : q # p => snap'[q] = snap[q]
  BY DEF TypeOK, WaitReturn
<1>6. /\ status' \in [Pids -> Codes \cup {0}]
      /\ \A q \in Pids : q # p => status'[q] = status[q]
  BY DEF TypeOK, WaitReturn
<1> QED BY <1>1, <1>2, <1>3, <1>4, <1>5, <1>6

LEMMA WaitCallFx ==
  ASSUME TypeOK, NEW p \in Pids, WaitCall(p)
  PROVE  /\ Moves(p) /\ TypeOK' /\ pc[p] = "user" /\ pc'[p] = "wait_count"
         /\ UNCHANGED <<exit_code, child_exit_seq, wait_queue, snap, found, status, code, masked>>
<1>1. PICK t \in {Any} \cup 1..(next_pid - 1), h \in BOOLEAN :
        target' = [target EXCEPT ![p] = t] /\ nohang' = [nohang EXCEPT ![p] = h]
  BY Zenon DEF WaitCall
<1>2. t \in Pids \cup {Any}
  BY <1>1, ProcLifeAssumption DEF TypeOK, Pids
<1>3. target' \in [Pids -> Pids \cup {Any}] /\ \A q \in Pids : q # p => target'[q] = target[q]
  BY <1>1, <1>2 DEF TypeOK
<1>4. nohang' \in [Pids -> BOOLEAN]
  BY <1>1 DEF TypeOK
<1>5. /\ pc[p] = "user" /\ Goto(p, "wait_count")
      /\ UNCHANGED <<ptable, registered, next_pid, state, parent_pid, exit_code, children, child_count,
                     child_exit_seq, wait_queue, sigchld, snap, found, status, code, masked>>
  BY DEF WaitCall, At, tableVars, procVars, kinVars, wakeVars, exitVars
<1>6. pc' \in [Pids -> Labels] /\ pc'[p] = "wait_count" /\ \A q \in Pids : q # p => pc'[q] = pc[q]
  BY <1>5, GotoFx DEF Labels, Waiting4
<1>7. TypeOK'
  BY <1>3, <1>4, <1>5, <1>6, Zenon DEF TypeOK
<1>8. Moves(p)
  BY <1>3, <1>5, <1>6 DEF Moves
<1> QED BY <1>5, <1>6, <1>7, <1>8

LEMMA WaitCountFx ==
  ASSUME TypeOK, NEW p \in Pids, WaitCount(p)
  PROVE  /\ Moves(p) /\ TypeOK' /\ pc[p] = "wait_count" /\ pc'[p] \in {"user", "wait_sample"}
         /\ snap'[p] \in {0, snap[p]}
         /\ UNCHANGED <<exit_code, child_exit_seq, wait_queue, code, masked>>
<1>1. /\ pc[p] = "wait_count"
      /\ UNCHANGED <<ptable, registered, next_pid, state, parent_pid, exit_code, children, child_count,
                     child_exit_seq, wait_queue, sigchld, code, masked>>
  BY DEF WaitCount, At, tableVars, procVars, kinVars, wakeVars, exitVars
<1>2. CASE WaitReturn(p)
  <2>1. TypeOK'
    BY <1>1, <1>2, WaitReturnFx, Zenon DEF TypeOK
  <2>2. Moves(p)
    BY <1>1, <1>2, WaitReturnFx DEF Moves
  <2> QED BY <1>1, <1>2, <2>1, <2>2, WaitReturnFx
<1>3. CASE Goto(p, "wait_sample") /\ UNCHANGED waitVars
  <2>0. UNCHANGED <<target, nohang, snap, found, status>>
    BY <1>3 DEF waitVars
  <2>1. pc' \in [Pids -> Labels] /\ pc'[p] = "wait_sample" /\ \A q \in Pids : q # p => pc'[q] = pc[q]
    BY <1>3, GotoFx DEF Labels, Waiting4
  <2>2. TypeOK'
    BY <1>1, <2>0, <2>1, Zenon DEF TypeOK
  <2>3. Moves(p)
    BY <1>1, <2>0, <2>1 DEF Moves
  <2> QED BY <1>1, <2>0, <2>1, <2>2, <2>3
<1> QED BY <1>2, <1>3 DEF WaitCount

LEMMA WaitSampleFx ==
  ASSUME TypeOK, NEW p \in Pids, WaitSample(p)
  PROVE  /\ Moves(p) /\ TypeOK' /\ pc[p] = "wait_sample" /\ pc'[p] = "wait_scan"
         /\ snap'[p] = child_exit_seq[p]
         /\ UNCHANGED <<exit_code, child_exit_seq, wait_queue, code, masked>>
<1>1. /\ pc[p] = "wait_sample" /\ Goto(p, "wait_scan") /\ snap' = [snap EXCEPT ![p] = child_exit_seq[p]]
      /\ UNCHANGED <<ptable, registered, next_pid, state, parent_pid, exit_code, children, child_count,
                     child_exit_seq, wait_queue, sigchld, target, nohang, found, status, code, masked>>
  BY DEF WaitSample, At, tableVars, procVars, kinVars, wakeVars, exitVars
<1>2. pc' \in [Pids -> Labels] /\ pc'[p] = "wait_scan" /\ \A q \in Pids : q # p => pc'[q] = pc[q]
  BY <1>1, GotoFx DEF Labels, Waiting4
<1>3. /\ snap' \in [Pids -> Nat] /\ snap'[p] = child_exit_seq[p]
      /\ \A q \in Pids : q # p => snap'[q] = snap[q]
  BY <1>1 DEF TypeOK
<1>4. TypeOK'
  BY <1>1, <1>2, <1>3, Zenon DEF TypeOK
<1>5. Moves(p)
  BY <1>1, <1>2, <1>3, SMTT(30) DEF Moves
<1> QED BY <1>1, <1>2, <1>3, <1>4, <1>5

LEMMA WaitScanFx ==
  ASSUME TypeOK, NEW p \in Pids, WaitScan(p)
  PROVE  /\ Moves(p) /\ TypeOK' /\ pc[p] = "wait_scan"
         /\ snap'[p] \in {0, snap[p]}
         /\ UNCHANGED <<exit_code, child_exit_seq, wait_queue, code, masked>>
         /\ \/ /\ pc'[p] = "reap_child" /\ found'[p] \in Zombies(p)
               /\ status'[p] = exit_code[found'[p]]
            \/ pc'[p] = "user"
            \/ pc'[p] = "wait_block" /\ Zombies(p) = {} /\ UNCHANGED target
<1>1. /\ pc[p] = "wait_scan"
      /\ UNCHANGED <<ptable, registered, next_pid, state, parent_pid, exit_code, children, child_count,
                     child_exit_seq, wait_queue, sigchld, code, masked>>
  BY DEF WaitScan, At, tableVars, procVars, kinVars, wakeVars, exitVars
<1>2. CASE WaitReturn(p)
  <2>1. TypeOK'
    BY <1>1, <1>2, WaitReturnFx, Zenon DEF TypeOK
  <2>2. Moves(p)
    BY <1>1, <1>2, WaitReturnFx DEF Moves
  <2> QED BY <1>1, <1>2, <2>1, <2>2, WaitReturnFx
<1>3. CASE Zombies(p) = {} /\ Goto(p, "wait_block") /\ UNCHANGED waitVars
  <2>0. UNCHANGED <<target, nohang, snap, found, status>>
    BY <1>3 DEF waitVars
  <2>1. pc' \in [Pids -> Labels] /\ pc'[p] = "wait_block" /\ \A q \in Pids : q # p => pc'[q] = pc[q]
    BY <1>3, GotoFx DEF Labels, Waiting4
  <2>2. TypeOK'
    BY <1>1, <2>0, <2>1, Zenon DEF TypeOK
  <2>3. Moves(p)
    BY <1>1, <2>0, <2>1 DEF Moves
  <2> QED BY <1>1, <1>3, <2>0, <2>1, <2>2, <2>3
<1>4. ASSUME NEW c \in Zombies(p), found' = [found EXCEPT ![p] = c],
             status' = [status EXCEPT ![p] = exit_code[c]], Goto(p, "reap_child"),
             UNCHANGED <<target, nohang, snap>>
      PROVE  /\ Moves(p) /\ TypeOK' /\ pc'[p] = "reap_child" /\ found'[p] \in Zombies(p)
             /\ status'[p] = exit_code[found'[p]] /\ snap'[p] = snap[p]
  <2>1. c \in Pids /\ exit_code[c] \in Codes \cup {0}
    BY DEF Zombies, TypeOK
  <2>2. pc' \in [Pids -> Labels] /\ pc'[p] = "reap_child" /\ \A q \in Pids : q # p => pc'[q] = pc[q]
    BY <1>4, GotoFx DEF Labels, Reaping
  <2>3. found' \in [Pids -> Pids \cup {Any}] /\ found'[p] = c /\ \A q \in Pids : q # p => found'[q] = found[q]
    BY <1>4, <2>1 DEF TypeOK
  <2>4. /\ status' \in [Pids -> Codes \cup {0}] /\ status'[p] = exit_code[c]
        /\ \A q \in Pids : q # p => status'[q] = status[q]
    BY <1>4, <2>1 DEF TypeOK
  <2>5. TypeOK'
    BY <1>1, <1>4, <2>2, <2>3, <2>4, Zenon DEF TypeOK
  <2>6. Moves(p)
    BY <1>1, <1>4, <2>2, <2>3, <2>4 DEF Moves
  <2> QED BY <1>4, <2>2, <2>3, <2>4, <2>5, <2>6
<1> QED BY <1>1, <1>2, <1>3, <1>4 DEF WaitScan

LEMMA WaitBlockFx ==
  ASSUME TypeOK, Queues, NEW p \in Pids, WaitBlock(p)
  PROVE  /\ Moves(p) /\ TypeOK' /\ pc[p] = "wait_block"
         /\ UNCHANGED <<exit_code, child_exit_seq, snap, target, found, status, code, masked>>
         /\ \/ pc'[p] = "blocked" /\ child_exit_seq[p] = snap[p]
            \/ pc'[p] = "wait_count"
         /\ wait_queue'[p] = IF pc'[p] = "blocked" THEN <<p>> ELSE << >>
         /\ \A q \in Pids : q # p => wait_queue'[q] = wait_queue[q]
<1>1. /\ pc[p] = "wait_block"
      /\ UNCHANGED <<ptable, registered, next_pid, state, parent_pid, exit_code, children, child_count,
                     child_exit_seq, sigchld, target, nohang, snap, found, status, code, masked>>
  BY DEF WaitBlock, At, tableVars, procVars, kinVars, waitVars, exitVars
<1>2. wait_queue[p] = << >>
  BY <1>1, Zenon DEF Queues
<1>3. CASE child_exit_seq[p] = snap[p]
  <2>1. wait_queue' = [wait_queue EXCEPT ![p] = Enqueue(@, p)] /\ Goto(p, "blocked")
    BY <1>3 DEF WaitBlock
  <2>2. Enqueue(wait_queue[p], p) = <<p>>
    BY <1>2 DEF Enqueue
  <2>3. /\ wait_queue' \in [Pids -> Seq(Pids)] /\ wait_queue'[p] = <<p>>
        /\ \A q \in Pids : q # p => wait_queue'[q] = wait_queue[q]
    BY <2>1, <2>2 DEF TypeOK
  <2>4. pc' \in [Pids -> Labels] /\ pc'[p] = "blocked" /\ \A q \in Pids : q # p => pc'[q] = pc[q]
    BY <2>1, GotoFx DEF Labels, Waiting4
  <2>5. TypeOK'
    BY <1>1, <2>3, <2>4, Zenon DEF TypeOK
  <2>6. Moves(p)
    BY <1>1, <2>4 DEF Moves
  <2> QED BY <1>1, <1>3, <2>3, <2>4, <2>5, <2>6
<1>4. CASE child_exit_seq[p] # snap[p]
  <2>1. wait_queue' = wait_queue /\ Goto(p, "wait_count")
    BY <1>4 DEF WaitBlock
  <2>2. pc' \in [Pids -> Labels] /\ pc'[p] = "wait_count" /\ \A q \in Pids : q # p => pc'[q] = pc[q]
    BY <2>1, GotoFx DEF Labels, Waiting4
  <2>3. TypeOK'
    BY <1>1, <2>1, <2>2, Zenon DEF TypeOK
  <2>4. Moves(p)
    BY <1>1, <2>2 DEF Moves
  <2> QED BY <1>1, <1>2, <2>1, <2>2, <2>3, <2>4
<1> QED BY <1>3, <1>4

LEMMA ReapChildFx ==
  ASSUME Shape, NEW p \in Pids, ReapChild(p)
  PROVE  /\ TypeOK' /\ pc[p] = "reap_child" /\ pc'[p] = "reap_ptable"
         /\ \A q \in Pids : q # p => pc'[q] = pc[q] /\ children'[q] = children[q] /\ child_count'[q] = child_count[q]
         /\ children'[p] = children[p] \ {found[p]} /\ child_count'[p] = child_count[p] - 1
         /\ child_count'[p] = Cardinality(children'[p])
         /\ UNCHANGED <<next_pid, state, parent_pid, exit_code, ptable, registered, child_exit_seq,
                        wait_queue, target, snap, found, status, code, masked>>
<1>1. pc[p] = "reap_child" /\ found[p] \in children[p] /\ found[p] \in ptable /\ found[p] \in Pids
  BY DEF ReapChild, At, Shape, Reap, ReapOf, Reaping, Kin
<1>2. /\ children' = [children EXCEPT ![p] = @ \ {found[p]}]
      /\ child_count' = [child_count EXCEPT ![p] = @ - 1]
      /\ Goto(p, "reap_ptable")
      /\ UNCHANGED <<ptable, registered, next_pid, state, parent_pid, exit_code, child_exit_seq,
                     wait_queue, sigchld, target, nohang, snap, found, status, code, masked>>
  BY <1>1 DEF ReapChild, tableVars, procVars, wakeVars, waitVars, exitVars
<1>3. pc' \in [Pids -> Labels] /\ pc'[p] = "reap_ptable" /\ \A q \in Pids : q # p => pc'[q] = pc[q]
  BY <1>2, GotoFx DEF Labels, Reaping, Shape
<1>4. /\ children' \in [Pids -> SUBSET Pids] /\ children'[p] = children[p] \ {found[p]}
      /\ \A q \in Pids : q # p => children'[q] = children[q]
  BY <1>2 DEF TypeOK, Shape
<1>5. child_count[p] - 1 = Cardinality(children[p] \ {found[p]}) /\ child_count[p] - 1 \in Nat
  <2>1. child_count[p] = Cardinality(children[p]) /\ children[p] \in SUBSET Pids
    BY DEF Counts, TypeOK, Shape
  <2>2. /\ Cardinality(children[p]) \in Nat /\ Cardinality(children[p]) > 0
        /\ Cardinality(children[p] \ {found[p]}) = Cardinality(children[p]) - 1
    BY <1>1, <2>1, CountFacts, Zenon
  <2> QED BY <2>1, <2>2
<1>6. /\ child_count' \in [Pids -> Nat] /\ child_count'[p] = child_count[p] - 1
      /\ \A q \in Pids : q # p => child_count'[q] = child_count[q]
  BY <1>2, <1>5 DEF TypeOK, Shape
<1>7. TypeOK'
  BY <1>2, <1>3, <1>4, <1>6, Zenon DEF TypeOK, Shape
<1> QED BY <1>1, <1>2, <1>3, <1>4, <1>5, <1>6, <1>7

LEMMA ReapPtableFx ==
  ASSUME TypeOK, NEW p \in Pids, ReapPtable(p)
  PROVE  /\ TypeOK' /\ pc[p] = "reap_ptable" /\ pc'[p] = "reap_table" /\ ptable' = ptable \ {found[p]}
         /\ \A q \in Pids : q # p => pc'[q] = pc[q]
         /\ UNCHANGED <<next_pid, state, parent_pid, exit_code, registered, children, child_count,
                        child_exit_seq, wait_queue, target, snap, found, status, code, masked>>
<1>1. /\ pc[p] = "reap_ptable" /\ Goto(p, "reap_table") /\ ptable' = ptable \ {found[p]}
      /\ UNCHANGED <<registered, next_pid, state, parent_pid, exit_code, children, child_count,
                     child_exit_seq, wait_queue, sigchld, target, nohang, snap, found, status,
                     code, masked>>
  BY DEF ReapPtable, At, procVars, kinVars, wakeVars, waitVars, exitVars
<1>2. pc' \in [Pids -> Labels] /\ pc'[p] = "reap_table" /\ \A q \in Pids : q # p => pc'[q] = pc[q]
  BY <1>1, GotoFx DEF Labels, Reaping
<1>3. ptable' \subseteq Pids
  BY <1>1 DEF TypeOK
<1>4. TypeOK'
  BY <1>1, <1>2, <1>3, Zenon DEF TypeOK
<1> QED BY <1>1, <1>2, <1>4

LEMMA ReapUnregisterFx ==
  ASSUME TypeOK, NEW p \in Pids, ReapUnregister(p)
  PROVE  /\ TypeOK' /\ pc[p] = "reap_table" /\ pc'[p] = "reap_free" /\ registered' = registered \ {found[p]}
         /\ \A q \in Pids : q # p => pc'[q] = pc[q]
         /\ UNCHANGED <<next_pid, state, parent_pid, exit_code, ptable, children, child_count,
                        child_exit_seq, wait_queue, target, snap, found, status, code, masked>>
<1>1. /\ pc[p] = "reap_table" /\ Goto(p, "reap_free") /\ registered' = registered \ {found[p]}
      /\ UNCHANGED <<ptable, next_pid, state, parent_pid, exit_code, children, child_count,
                     child_exit_seq, wait_queue, sigchld, target, nohang, snap, found, status,
                     code, masked>>
  BY DEF ReapUnregister, At, procVars, kinVars, wakeVars, waitVars, exitVars
<1>2. pc' \in [Pids -> Labels] /\ pc'[p] = "reap_free" /\ \A q \in Pids : q # p => pc'[q] = pc[q]
  BY <1>1, GotoFx DEF Labels, Reaping
<1>3. registered' \subseteq Pids
  BY <1>1 DEF TypeOK
<1>4. TypeOK'
  BY <1>1, <1>2, <1>3, Zenon DEF TypeOK
<1> QED BY <1>1, <1>2, <1>4

LEMMA ReapFreeFx ==
  ASSUME TypeOK, Reap, NEW p \in Pids, ReapFree(p)
  PROVE  /\ TypeOK' /\ pc[p] = "reap_free" /\ pc'[p] = "user" /\ snap'[p] = 0
         /\ found[p] \in Pids /\ state[found[p]] = "zombie" /\ state'[found[p]] = "freed"
         /\ \A q \in Pids : q # found[p] => state'[q] = state[q]
         /\ \A q \in Pids : q # p => /\ pc'[q] = pc[q] /\ found'[q] = found[q] /\ status'[q] = status[q]
                                    /\ snap'[q] = snap[q] /\ target'[q] = target[q]
         /\ UNCHANGED <<next_pid, parent_pid, exit_code, ptable, registered, children, child_count,
                        child_exit_seq, wait_queue, code, masked>>
<1>1. /\ pc[p] = "reap_free" /\ WaitReturn(p) /\ state' = [state EXCEPT ![found[p]] = "freed"]
      /\ UNCHANGED <<ptable, registered, next_pid, parent_pid, exit_code, children, child_count,
                     child_exit_seq, wait_queue, sigchld, code, masked>>
  BY DEF ReapFree, At, tableVars, kinVars, wakeVars, exitVars
<1>2. found[p] \in Pids /\ state[found[p]] = "zombie"
  BY <1>1 DEF Reap, ReapOf, Reaping
<1>3. /\ state' \in [Pids -> {"none", "running", "zombie", "freed"}] /\ state'[found[p]] = "freed"
      /\ \A q \in Pids : q # found[p] => state'[q] = state[q]
  BY <1>1, <1>2 DEF TypeOK
<1>4. TypeOK'
  BY <1>1, <1>3, WaitReturnFx, Zenon DEF TypeOK
<1> QED BY <1>1, <1>2, <1>3, <1>4, WaitReturnFx

LEMMA ExitCallFx ==
  ASSUME TypeOK, NEW p \in Pids, ExitCall(p)
  PROVE  /\ Moves(p) /\ TypeOK' /\ pc[p] = "user" /\ pc'[p] = "exit_zombie"
         /\ \A q \in Pids : q # p => code'[q] = code[q] /\ masked'[q] = masked[q]
         /\ UNCHANGED <<exit_code, child_exit_seq, wait_queue, snap, found, status>>
<1>1. /\ pc[p] = "user" /\ Goto(p, "exit_zombie")
      /\ UNCHANGED <<ptable, registered, next_pid, state, parent_pid, exit_code, children,
                     child_count, child_exit_seq, wait_queue, sigchld, target, nohang, snap, found, status>>
  BY DEF ExitCall, At, tableVars, procVars, kinVars, wakeVars, waitVars, exitVars
<1>2. pc' \in [Pids -> Labels] /\ pc'[p] = "exit_zombie" /\ \A q \in Pids : q # p => pc'[q] = pc[q]
  BY <1>1, GotoFx DEF Labels, Exiting
<1>3. code' \in [Pids -> Codes \cup {0}] /\ \A q \in Pids : q # p => code'[q] = code[q]
  <2>1. PICK n \in Codes : code' = [code EXCEPT ![p] = n]
    BY Zenon DEF ExitCall
  <2> QED BY <2>1 DEF TypeOK
<1>6. masked' \in [Pids -> BOOLEAN] /\ \A q \in Pids : q # p => masked'[q] = masked[q]
  <2>1. PICK m \in BOOLEAN : masked' = [masked EXCEPT ![p] = m]
    BY Zenon DEF ExitCall
  <2> QED BY <2>1 DEF TypeOK
<1>4. TypeOK'
  BY <1>1, <1>2, <1>3, <1>6, Zenon DEF TypeOK
<1>5. Moves(p)
  BY <1>1, <1>2 DEF Moves
<1> QED BY <1>1, <1>2, <1>3, <1>4, <1>5, <1>6

LEMMA ExitZombieFx ==
  ASSUME TypeOK, NEW p \in Pids, ExitZombie(p)
  PROVE  /\ TypeOK' /\ pc[p] = "exit_zombie" /\ pc'[p] = "exit_code" /\ state'[p] = "zombie"
         /\ \A q \in Pids : q # p => pc'[q] = pc[q] /\ state'[q] = state[q]
         /\ UNCHANGED <<next_pid, parent_pid, exit_code, ptable, registered, children, child_count,
                        child_exit_seq, wait_queue, target, snap, found, status, code, masked>>
<1>1. /\ pc[p] = "exit_zombie" /\ Goto(p, "exit_code") /\ state' = [state EXCEPT ![p] = "zombie"]
      /\ UNCHANGED <<ptable, registered, next_pid, parent_pid, exit_code, children, child_count,
                     child_exit_seq, wait_queue, sigchld, target, nohang, snap, found, status,
                     code, masked>>
  BY DEF ExitZombie, At, tableVars, kinVars, wakeVars, waitVars, exitVars
<1>2. pc' \in [Pids -> Labels] /\ pc'[p] = "exit_code" /\ \A q \in Pids : q # p => pc'[q] = pc[q]
  BY <1>1, GotoFx DEF Labels, Exiting
<1>3. /\ state' \in [Pids -> {"none", "running", "zombie", "freed"}] /\ state'[p] = "zombie"
      /\ \A q \in Pids : q # p => state'[q] = state[q]
  BY <1>1 DEF TypeOK
<1>4. TypeOK'
  BY <1>1, <1>2, <1>3, Zenon DEF TypeOK
<1> QED BY <1>1, <1>2, <1>3, <1>4

LEMMA ExitCodeFx ==
  ASSUME TypeOK, NEW p \in Pids, ExitCode(p)
  PROVE  /\ Moves(p) /\ TypeOK' /\ pc[p] = "exit_code" /\ pc'[p] = "exit_find"
         /\ exit_code'[p] = code[p] /\ \A q \in Pids : q # p => exit_code'[q] = exit_code[q]
         /\ UNCHANGED <<child_exit_seq, wait_queue, snap, found, status, target, code, masked>>
<1>1. /\ pc[p] = "exit_code" /\ Goto(p, "exit_find")
      /\ exit_code' = [exit_code EXCEPT ![p] = code[p]]
      /\ UNCHANGED <<ptable, registered, next_pid, state, parent_pid, children, child_count,
                     child_exit_seq, wait_queue, sigchld, target, nohang, snap, found, status,
                     code, masked>>
  BY DEF ExitCode, At, tableVars, kinVars, wakeVars, waitVars, exitVars
<1>2. pc' \in [Pids -> Labels] /\ pc'[p] = "exit_find" /\ \A q \in Pids : q # p => pc'[q] = pc[q]
  BY <1>1, GotoFx DEF Labels, Exiting
<1>3. /\ exit_code' \in [Pids -> Codes \cup {0}] /\ exit_code'[p] = code[p]
      /\ \A q \in Pids : q # p => exit_code'[q] = exit_code[q]
  BY <1>1 DEF TypeOK
<1>8. TypeOK'
  BY <1>1, <1>2, <1>3, Zenon DEF TypeOK
<1>9. Moves(p)
  BY <1>1, <1>2 DEF Moves
<1> QED BY <1>1, <1>2, <1>3, <1>8, <1>9, Zenon

LEMMA ExitRaiseFx ==
  ASSUME TypeOK, Notifying, NEW p \in Pids, ExitRaise(p)
  PROVE  /\ Moves(p) /\ TypeOK' /\ pc[p] = "exit_raise" /\ pc'[p] = "exit_bump"
         /\ UNCHANGED <<exit_code, child_exit_seq, wait_queue, snap, found, status, target, code, masked>>
<1>1. /\ pc[p] = "exit_raise" /\ Goto(p, "exit_bump")
      /\ sigchld' = sigchld \cup {parent_pid[p]}
      /\ UNCHANGED <<ptable, registered, next_pid, state, parent_pid, exit_code, children,
                     child_count, child_exit_seq, wait_queue, target, nohang, snap, found, status,
                     code, masked>>
  BY DEF ExitRaise, At, tableVars, procVars, kinVars, waitVars, exitVars
<1>2. pc' \in [Pids -> Labels] /\ pc'[p] = "exit_bump" /\ \A q \in Pids : q # p => pc'[q] = pc[q]
  BY <1>1, GotoFx DEF Labels, Exiting
<1>3. sigchld' \subseteq Pids
  BY <1>1 DEF Notifying, TypeOK
<1>8. TypeOK'
  BY <1>1, <1>2, <1>3, Zenon DEF TypeOK
<1>9. Moves(p)
  BY <1>1, <1>2, Zenon DEF Moves
<1> QED BY <1>1, <1>2, <1>3, <1>8, <1>9

LEMMA ExitBumpFx ==
  ASSUME TypeOK, Notifying, NEW p \in Pids, ExitBump(p)
  PROVE  /\ Moves(p) /\ TypeOK' /\ pc[p] = "exit_bump" /\ pc'[p] = "exit_wake"
         /\ parent_pid[p] \in Pids
         /\ child_exit_seq'[parent_pid[p]] = child_exit_seq[parent_pid[p]] + 1
         /\ \A q \in Pids : q # parent_pid[p] => child_exit_seq'[q] = child_exit_seq[q]
         /\ UNCHANGED <<exit_code, wait_queue, snap, found, status, target, code, masked>>
<1>1. /\ pc[p] = "exit_bump" /\ Goto(p, "exit_wake")
      /\ child_exit_seq' = [child_exit_seq EXCEPT ![parent_pid[p]] = @ + 1]
      /\ UNCHANGED <<ptable, registered, next_pid, state, parent_pid, exit_code, children,
                     child_count, wait_queue, sigchld, target, nohang, snap, found, status,
                     code, masked>>
  BY DEF ExitBump, At, tableVars, procVars, kinVars, waitVars, exitVars
<1>2. pc' \in [Pids -> Labels] /\ pc'[p] = "exit_wake" /\ \A q \in Pids : q # p => pc'[q] = pc[q]
  BY <1>1, GotoFx DEF Labels, Exiting
<1>3. parent_pid[p] \in Pids
  BY <1>1 DEF Notifying
<1>4. /\ child_exit_seq' \in [Pids -> Nat]
      /\ child_exit_seq'[parent_pid[p]] = child_exit_seq[parent_pid[p]] + 1
      /\ \A q \in Pids : q # parent_pid[p] => child_exit_seq'[q] = child_exit_seq[q]
  BY <1>1, <1>3 DEF TypeOK
<1>8. TypeOK'
  BY <1>1, <1>2, <1>3, <1>4, Zenon DEF TypeOK
<1>9. Moves(p)
  BY <1>1, <1>2 DEF Moves
<1> QED BY <1>1, <1>2, <1>3, <1>4, <1>8, <1>9, Zenon

LEMMA ExitDeadFx ==
  ASSUME TypeOK, NEW p \in Pids, ExitDead(p)
  PROVE  /\ Moves(p) /\ TypeOK' /\ pc[p] = "exit_dead" /\ pc'[p] = "gone"
         /\ UNCHANGED <<exit_code, child_exit_seq, wait_queue, snap, found, status, target, code, masked>>
<1>1. /\ pc[p] = "exit_dead" /\ Goto(p, "gone")
      /\ UNCHANGED <<ptable, registered, next_pid, state, parent_pid, exit_code, children,
                     child_count, child_exit_seq, wait_queue, sigchld, target, nohang, snap, found, status,
                     code, masked>>
  BY DEF ExitDead, At, tableVars, procVars, kinVars, wakeVars, waitVars, exitVars
<1>2. pc' \in [Pids -> Labels] /\ pc'[p] = "gone" /\ \A q \in Pids : q # p => pc'[q] = pc[q]
  BY <1>1, GotoFx DEF Labels
<1>8. TypeOK'
  BY <1>1, <1>2, Zenon DEF TypeOK
<1>9. Moves(p)
  BY <1>1, <1>2 DEF Moves
<1> QED BY <1>1, <1>2, <1>8, <1>9

LEMMA ExitFindFx ==
  ASSUME TypeOK, NEW p \in Pids, ExitFind(p)
  PROVE  /\ Moves(p) /\ TypeOK' /\ pc[p] = "exit_find"
         /\ pc'[p] = IF parent_pid[p] \in ptable THEN "exit_raise" ELSE "exit_dead"
         /\ UNCHANGED <<exit_code, child_exit_seq, wait_queue, snap, found, status, target, code, masked>>
<1> DEFINE m == IF parent_pid[p] \in ptable THEN "exit_raise" ELSE "exit_dead"
<1>1. /\ pc[p] = "exit_find" /\ Goto(p, m)
      /\ UNCHANGED <<ptable, registered, next_pid, state, parent_pid, exit_code, children,
                     child_count, child_exit_seq, wait_queue, sigchld, target, nohang, snap, found, status,
                     code, masked>>
  BY DEF ExitFind, At, tableVars, procVars, kinVars, wakeVars, waitVars, exitVars
<1>2. pc' \in [Pids -> Labels] /\ pc'[p] = m /\ \A q \in Pids : q # p => pc'[q] = pc[q]
  <2>1. m \in Labels
    BY DEF Labels, Exiting
  <2> HIDE DEF m
  <2> QED BY <1>1, <2>1, GotoFx
<1>8. TypeOK'
  BY <1>1, <1>2, Zenon DEF TypeOK
<1>9. Moves(p)
  BY <1>1, <1>2, Zenon DEF Moves
<1> QED BY <1>1, <1>2, <1>8, <1>9

(* The wake moves the exiting process on and at most its sleeping parent. *)
LEMMA ExitWakeFx ==
  ASSUME Shape, NEW p \in Pids, ExitWake(p)
  PROVE  /\ TypeOK' /\ pc[p] = "exit_wake" /\ pc'[p] = "exit_dead" /\ parent_pid[p] \in Pids
         /\ wait_queue'[parent_pid[p]] = << >>
         /\ \A q \in Pids : q # parent_pid[p] => wait_queue'[q] = wait_queue[q]
         /\ pc[parent_pid[p]] = "blocked" => pc'[parent_pid[p]] = "wait_count"
         /\ \A q \in Pids : q # p => \/ pc'[q] = pc[q] /\ (pc[q] = "blocked" => q # parent_pid[p])
                                     \/ q = parent_pid[p] /\ pc[q] = "blocked" /\ pc'[q] = "wait_count"
         /\ UNCHANGED <<next_pid, state, parent_pid, exit_code, ptable, registered, children, child_count,
                        child_exit_seq, target, snap, found, status, code, masked>>
<1> DEFINE d == parent_pid[p]
           o == WakeOne(wait_queue[d])
<1>1. /\ pc[p] = "exit_wake" /\ wait_queue' = [wait_queue EXCEPT ![d] = o.left]
      /\ pc' = [r \in Pids |-> IF r = p THEN "exit_dead"
                               ELSE IF r \in o.woken THEN "wait_count" ELSE pc[r]]
      /\ UNCHANGED <<ptable, registered, next_pid, state, parent_pid, exit_code, children,
                     child_count, child_exit_seq, sigchld, target, nohang, snap, found, status,
                     code, masked>>
  BY Zenon DEF ExitWake, At, tableVars, procVars, kinVars, waitVars, exitVars
<1>2. d \in Pids /\ wait_queue[d] = IF pc[d] = "blocked" THEN <<d>> ELSE << >>
  BY <1>1, Zenon DEF Shape, Notifying, Queues
<1>3. o.woken = (IF pc[d] = "blocked" THEN {d} ELSE {}) /\ o.left = << >>
  BY <1>2, WakeSingle, Zenon
<1> HIDE DEF d, o
<1>4. /\ wait_queue' \in [Pids -> Seq(Pids)] /\ wait_queue'[d] = << >>
      /\ \A r \in Pids : r # d => wait_queue'[r] = wait_queue[r]
  <2>1. wait_queue' = [wait_queue EXCEPT ![d] = << >>]
    BY <1>1, <1>3, Zenon
  <2>2. wait_queue \in [Pids -> Seq(Pids)] /\ << >> \in Seq(Pids)
    BY DEF Shape, TypeOK
  <2> QED BY <1>2, <2>1, <2>2
<1>5. \A r \in Pids : pc'[r] = IF r = p THEN "exit_dead"
                               ELSE IF pc[d] = "blocked" /\ r = d THEN "wait_count" ELSE pc[r]
  BY <1>1, <1>3
<1>6. pc' \in [Pids -> Labels]
  BY <1>1 DEF Shape, TypeOK, Labels, Exiting, Waiting4
<1>7. TypeOK'
  BY <1>1, <1>4, <1>6, Zenon DEF Shape, TypeOK
<1>8. /\ pc'[p] = "exit_dead" /\ (pc[d] = "blocked" => pc'[d] = "wait_count")
      /\ \A r \in Pids : r # p => \/ pc'[r] = pc[r] /\ (pc[r] = "blocked" => r # d)
                                  \/ r = d /\ pc[r] = "blocked" /\ pc'[r] = "wait_count"
  <2>1. pc[p] = "exit_wake"
    BY <1>1
  <2> QED BY <2>1, <1>2, <1>5, Zenon
<1> QED BY <1>1, <1>2, <1>4, <1>7, <1>8 DEF d

(* fork allocates a pid that nothing names yet. *)
LEMMA ForkFx ==
  ASSUME Shape, NEW p \in Pids, Fork(p), NEW c, c = next_pid
  PROVE  /\ c \in Pids /\ c # p /\ c \notin Allocated /\ c \notin ptable /\ pc[p] = "user"
         /\ pc[c] = "none" /\ state[c] = "none" /\ (\A q \in Pids : c \notin children[q])
         /\ pc'[c] = "user" /\ state'[c] = "running" /\ parent_pid'[c] = p
         /\ \A q \in Pids : q # c => pc'[q] = pc[q] /\ state'[q] = state[q] /\ parent_pid'[q] = parent_pid[q]
         /\ children'[p] = children[p] \cup {c} /\ child_count'[p] = child_count[p] + 1
         /\ \A q \in Pids : q # p => children'[q] = children[q] /\ child_count'[q] = child_count[q]
         /\ Allocated' = Allocated \cup {c} /\ ptable' = PtableInsert(c) /\ registered' = registered \cup {c}
         /\ UNCHANGED <<exit_code, child_exit_seq, wait_queue, target, snap, found, status, code, masked>>
<1>1. /\ pc[p] = "user" /\ c \in Pids /\ next_pid' = c + 1
      /\ state' = [state EXCEPT ![c] = "running"]
      /\ parent_pid' = [parent_pid EXCEPT ![c] = p]
      /\ registered' = registered \cup {c} /\ ptable' = PtableInsert(c)
      /\ children' = [children EXCEPT ![p] = @ \cup {c}]
      /\ child_count' = [child_count EXCEPT ![p] = @ + 1]
      /\ pc' = [pc EXCEPT ![c] = "user"]
      /\ UNCHANGED <<exit_code, child_exit_seq, wait_queue, target, snap, found, status, code, masked>>
  BY Zenon DEF Fork, At, Goto, wakeVars, waitVars, exitVars
<1>2. c \notin Allocated /\ Allocated' = Allocated \cup {c}
  BY <1>1 DEF Allocated, Pids
<1>3. c # p /\ pc[c] = "none" /\ state[c] = "none" /\ c \notin ptable /\ (\A q \in Pids : c \notin children[q])
  BY <1>1, <1>2 DEF Shape, PcState, Kin
<1>4. /\ pc'[c] = "user" /\ state'[c] = "running" /\ parent_pid'[c] = p
      /\ \A q \in Pids : q # c => pc'[q] = pc[q] /\ state'[q] = state[q] /\ parent_pid'[q] = parent_pid[q]
  BY <1>1 DEF Shape, TypeOK
<1>5. /\ children'[p] = children[p] \cup {c} /\ child_count'[p] = child_count[p] + 1
      /\ \A q \in Pids : q # p => children'[q] = children[q] /\ child_count'[q] = child_count[q]
  BY <1>1 DEF Shape, TypeOK
<1> QED BY <1>1, <1>2, <1>3, <1>4, <1>5

LEMMA ForkType ==
  ASSUME Shape, NEW p \in Pids, Fork(p)
  PROVE  TypeOK'
<1> DEFINE c == next_pid
<1>1. /\ c \in Pids /\ next_pid' = c + 1
      /\ state' = [state EXCEPT ![c] = "running"]
      /\ parent_pid' = [parent_pid EXCEPT ![c] = p]
      /\ registered' = registered \cup {c} /\ ptable' = PtableInsert(c)
      /\ children' = [children EXCEPT ![p] = @ \cup {c}]
      /\ child_count' = [child_count EXCEPT ![p] = @ + 1]
      /\ Goto(c, "user")
      /\ UNCHANGED <<exit_code, child_exit_seq, wait_queue, sigchld, target, nohang, snap, found, status,
                     code, masked>>
  BY Zenon DEF Fork, wakeVars, waitVars, exitVars
<1>2. next_pid' \in 2..(MaxPid + 1)
  BY <1>1, ProcLifeAssumption DEF Shape, TypeOK, Pids
<1> HIDE DEF c
<1>3. pc' \in [Pids -> Labels]
  BY <1>1, GotoFx DEF Shape, Labels
<1>4. state' \in [Pids -> {"none", "running", "zombie", "freed"}]
  BY <1>1 DEF Shape, TypeOK
<1>5. parent_pid' \in [Pids -> Pids \cup {Any}]
  BY <1>1 DEF Shape, TypeOK
<1>6. children' \in [Pids -> SUBSET Pids]
  BY <1>1 DEF Shape, TypeOK
<1>7. child_count' \in [Pids -> Nat]
  BY <1>1 DEF Shape, TypeOK
<1>8. ptable' \subseteq Pids /\ registered' \subseteq Pids
  BY <1>1 DEF Shape, TypeOK, PtableInsert
<1> QED BY <1>1, <1>2, <1>3, <1>4, <1>5, <1>6, <1>7, <1>8, Zenon DEF Shape, TypeOK

-----------------------------------------------------------------------------
(***************************************************************************)
(* Every step of ProcLife keeps Shape: the tables, the family, the program *)
(* counters and the wait queues fit together.  ShapeFrame covers the steps *)
(* that only move a thread; fork and, in ProcLifeProofs, the reap, the     *)
(* store of Zombie and the wake are proved conjunct by conjunct.           *)
(***************************************************************************)

(* Who goes on with a reap finds the child as it was. *)
LEMMA ReapKept ==
  ASSUME Reap, NEW q \in Pids, pc'[q] = pc[q], found'[q] = found[q], children'[q] = children[q],
         pc[q] \in Reaping =>
           /\ state'[found[q]] = state[found[q]] /\ parent_pid'[found[q]] = parent_pid[found[q]]
           /\ found[q] \in ptable' => found[q] \in ptable
           /\ found[q] \in registered' => found[q] \in registered
  PROVE  ReapOf(q)'
<1>1. ReapOf(q)
  BY DEF Reap
<1> QED BY <1>1 DEF ReapOf, Reaping

(* A step of p that touches neither the tables nor the family keeps Shape   *)
(* if p's new program counter fits its state, its queue and its locals.     *)
LEMMA ShapeFrame ==
  ASSUME Shape, TypeOK', NEW p \in Pids, Moves(p),
         pc[p] # "none", pc'[p] # "none", pc'[p] \in Alive <=> pc[p] \in Alive,
         \A q \in Pids : child_exit_seq'[q] >= child_exit_seq[q],
         snap'[p] <= child_exit_seq'[p],
         \A q \in Pids : q # p => wait_queue'[q] = wait_queue[q],
         wait_queue'[p] = IF pc'[p] = "blocked" THEN <<p>> ELSE << >>,
         pc'[p] \in Reaping => pc'[p] = "reap_child" /\ found'[p] \in Zombies(p),
         pc'[p] \in {"exit_raise", "exit_bump", "exit_wake"} => parent_pid[p] \in Pids
  PROVE  Shape'
<1>1. /\ \A q \in Pids : q # p => pc'[q] = pc[q] /\ found'[q] = found[q] /\ snap'[q] = snap[q]
      /\ UNCHANGED <<next_pid, state, parent_pid, children, child_count, ptable, registered>>
  BY DEF Moves
<1>2. PcState'
  BY <1>1 DEF Shape, PcState, Allocated, Alive
<1>3. Kin'
  BY <1>1 DEF Shape, Kin, Allocated
<1>4. Reap'
  <2> SUFFICES ASSUME NEW q \in Pids, pc'[q] \in Reaping
               PROVE  /\ found'[q] \in Pids
                      /\ state'[found'[q]] = "zombie"
                      /\ parent_pid'[found'[q]] = q
                      /\ pc'[q] = "reap_child" => found'[q] \in children'[q]
                      /\ pc'[q] # "reap_child" => found'[q] \notin children'[q]
                      /\ pc'[q] \in {"reap_table", "reap_free"} => found'[q] \notin ptable'
                      /\ pc'[q] = "reap_free" => found'[q] \notin registered'
    BY DEF Reap, ReapOf, Reaping
  <2>1. CASE q = p
    <3>1. found'[p] \in children[p] /\ state[found'[p]] = "zombie" /\ pc'[p] = "reap_child"
      BY <2>1 DEF Zombies
    <3>2. found'[p] \in Pids /\ parent_pid[found'[p]] = p
      BY <3>1 DEF Shape, Kin, TypeOK
    <3> QED BY <1>1, <2>1, <3>1, <3>2
  <2>2. CASE q # p
    <3>1. ReapOf(q)'
      BY <1>1, <2>2, ReapKept, Zenon DEF Shape
    <3> QED BY <3>1, Zenon DEF ReapOf
  <2> QED BY <2>1, <2>2
<1>5. Counts'
  BY <1>1 DEF Shape, Counts
<1>6. Queues'
  BY <1>1, Zenon DEF Shape, Queues
<1>7. Notifying'
  BY <1>1 DEF Shape, Notifying
<1>8. Snaps'
  <2> SUFFICES ASSUME NEW q \in Pids PROVE snap'[q] <= child_exit_seq'[q]
    BY DEF Snaps
  <2>1. CASE q # p
    <3>1. snap[q] \in Nat /\ child_exit_seq[q] \in Nat /\ child_exit_seq'[q] \in Nat
      BY DEF Shape, TypeOK
    <3> QED BY <1>1, <2>1, <3>1 DEF Shape, Snaps
  <2> QED BY <2>1
<1> QED BY <1>2, <1>3, <1>4, <1>5, <1>6, <1>7, <1>8 DEF Shape

(* The hypotheses of ShapeFrame about counters and queues, for a step that  *)
(* touches neither.                                                         *)
LEMMA PlainStep ==
  ASSUME Shape, NEW p \in Pids, UNCHANGED <<child_exit_seq, wait_queue>>,
         snap'[p] \in {0, snap[p], child_exit_seq[p]}, pc[p] # "blocked", pc'[p] # "blocked"
  PROVE  /\ \A q \in Pids : child_exit_seq'[q] >= child_exit_seq[q]
         /\ snap'[p] <= child_exit_seq'[p]
         /\ \A q \in Pids : q # p => wait_queue'[q] = wait_queue[q]
         /\ wait_queue'[p] = IF pc'[p] = "blocked" THEN <<p>> ELSE << >>
<1>1. \A q \in Pids : child_exit_seq[q] \in Nat /\ snap[q] \in Nat
  BY DEF Shape, TypeOK
<1>2. snap'[p] <= child_exit_seq'[p]
  BY <1>1 DEF Shape, Snaps
<1>3. \A q \in Pids : child_exit_seq'[q] >= child_exit_seq[q]
  BY <1>1
<1>4. wait_queue[p] = << >>
  BY Zenon DEF Shape, Queues
<1> QED BY <1>2, <1>3, <1>4

(* A counter that stays or goes up by one does not fall behind. *)
LEMMA CounterGrows ==
  ASSUME NEW m \in Nat, NEW k \in Nat, k <= m, NEW n \in {m, m + 1}
  PROVE  n >= m /\ k <= n
OBVIOUS

(* The steps that only move a thread. *)
LEMMA ShapeMoves ==
  ASSUME Shape, NEW p \in Pids,
         \/ WaitCall(p) \/ WaitCount(p) \/ WaitSample(p) \/ WaitScan(p) \/ WaitBlock(p)
         \/ ExitCall(p) \/ ExitCode(p) \/ ExitFind(p) \/ ExitRaise(p) \/ ExitBump(p) \/ ExitDead(p)
  PROVE  Shape'
<1>0. TypeOK /\ Queues /\ Notifying
  BY DEF Shape
<1>a. \A q \in Pids : /\ child_exit_seq[q] \in Nat /\ snap[q] \in Nat
                       /\ snap[q] <= child_exit_seq[q] /\ child_exit_seq[q] >= child_exit_seq[q]
  BY DEF Shape, Snaps, TypeOK
<1>1. CASE WaitCall(p)
  BY <1>0, <1>1, WaitCallFx, PlainStep, ShapeFrame, Zenon DEF Alive, Waiting4, Reaping
<1>2. CASE WaitCount(p)
  BY <1>0, <1>2, WaitCountFx, PlainStep, ShapeFrame, Zenon DEF Alive, Waiting4, Reaping
<1>3. CASE WaitSample(p)
  BY <1>0, <1>3, WaitSampleFx, PlainStep, ShapeFrame, Zenon DEF Alive, Waiting4, Reaping
<1>4. CASE WaitScan(p)
  BY <1>0, <1>4, WaitScanFx, PlainStep, ShapeFrame, Zenon DEF Alive, Waiting4, Reaping
<1>5. CASE WaitBlock(p)
  <2>1. /\ \A q \in Pids : child_exit_seq'[q] >= child_exit_seq[q]
        /\ snap'[p] <= child_exit_seq'[p]
    <3>1. UNCHANGED <<child_exit_seq, snap>>
      BY <1>0, <1>5, WaitBlockFx, Zenon
    <3> QED BY <1>a, <3>1, Zenon
  <2> QED BY <1>0, <1>5, <2>1, WaitBlockFx, ShapeFrame, Zenon DEF Alive, Waiting4, Reaping
<1>6. CASE ExitCall(p)
  BY <1>0, <1>6, ExitCallFx, PlainStep, ShapeFrame, Zenon DEF Alive, Waiting4, Reaping
<1>7. CASE ExitCode(p)
  BY <1>0, <1>7, ExitCodeFx, PlainStep, ShapeFrame, Zenon DEF Alive, Waiting4, Reaping
<1>8. CASE ExitFind(p)
  <2>1. pc'[p] = "exit_raise" => parent_pid[p] \in Pids
    BY <1>0, <1>8, ExitFindFx DEF TypeOK
  <2> QED BY <1>0, <1>8, <2>1, ExitFindFx, PlainStep, ShapeFrame, Zenon DEF Alive, Waiting4, Reaping
<1>9. CASE ExitRaise(p)
  <2>1. parent_pid[p] \in Pids
    BY <1>0, <1>9, ExitRaiseFx DEF Notifying
  <2> QED BY <1>0, <1>9, <2>1, ExitRaiseFx, PlainStep, ShapeFrame, Zenon DEF Alive, Waiting4, Reaping
<1>10. CASE ExitBump(p)
  <2>1. /\ \A q \in Pids : child_exit_seq'[q] >= child_exit_seq[q]
        /\ snap'[p] <= child_exit_seq'[p]
    <3>1. /\ snap' = snap
          /\ \A q \in Pids : child_exit_seq'[q] \in {child_exit_seq[q], child_exit_seq[q] + 1}
      BY <1>0, <1>10, ExitBumpFx, Zenon
    <3>2. ASSUME NEW q \in Pids PROVE child_exit_seq'[q] >= child_exit_seq[q]
      <4>1. child_exit_seq[q] \in Nat /\ child_exit_seq'[q] \in {child_exit_seq[q], child_exit_seq[q] + 1}
        BY <1>a, <3>1, Zenon
      <4>2. snap[q] \in Nat /\ snap[q] <= child_exit_seq[q]
        BY <1>a, Zenon
      <4> QED BY <4>1, <4>2, CounterGrows, Zenon
    <3>3. snap'[p] <= child_exit_seq'[p]
      <4>1. /\ child_exit_seq[p] \in Nat /\ snap[p] \in Nat /\ snap[p] <= child_exit_seq[p]
            /\ child_exit_seq'[p] \in {child_exit_seq[p], child_exit_seq[p] + 1} /\ snap'[p] = snap[p]
        BY <1>a, <3>1, Zenon
      <4>2. snap[p] <= child_exit_seq'[p]
        BY <4>1, CounterGrows, Zenon
      <4> QED BY <4>1, <4>2, Zenon
    <3> QED BY <3>2, <3>3, Zenon
  <2>2. wait_queue'[p] = << >>
    BY <1>0, <1>10, ExitBumpFx, Zenon DEF Queues
  <2> QED BY <1>0, <1>10, <2>1, <2>2, ExitBumpFx, ShapeFrame, Zenon DEF Alive, Waiting4, Reaping
<1>11. CASE ExitDead(p)
  BY <1>0, <1>11, ExitDeadFx, PlainStep, ShapeFrame, Zenon DEF Alive, Waiting4, Reaping
<1> QED BY <1>1, <1>2, <1>3, <1>4, <1>5, <1>6, <1>7, <1>8, <1>9, <1>10, <1>11

(* fork gives its parent one more child, which is in both tables. *)
LEMMA ShapeFork ==
  ASSUME BucketsSuffice, Shape, NEW p \in Pids, Fork(p)
  PROVE  Shape'
<1> SUFFICES ASSUME NEW c, c = next_pid PROVE Shape'
  OBVIOUS
<1>1. /\ c \in Pids /\ c # p /\ c \notin Allocated /\ c \notin ptable /\ pc[p] = "user"
      /\ pc[c] = "none" /\ state[c] = "none" /\ (\A q \in Pids : c \notin children[q])
      /\ pc'[c] = "user" /\ state'[c] = "running" /\ parent_pid'[c] = p
      /\ \A q \in Pids : q # c => pc'[q] = pc[q] /\ state'[q] = state[q] /\ parent_pid'[q] = parent_pid[q]
      /\ children'[p] = children[p] \cup {c} /\ child_count'[p] = child_count[p] + 1
      /\ \A q \in Pids : q # p => children'[q] = children[q] /\ child_count'[q] = child_count[q]
      /\ Allocated' = Allocated \cup {c} /\ ptable' = PtableInsert(c) /\ registered' = registered \cup {c}
      /\ UNCHANGED <<child_exit_seq, wait_queue, snap, found>>
  <2>1. /\ c \in Pids /\ c # p /\ c \notin Allocated /\ c \notin ptable /\ pc[p] = "user"
        /\ pc[c] = "none" /\ state[c] = "none" /\ (\A q \in Pids : c \notin children[q])
        /\ pc'[c] = "user" /\ state'[c] = "running" /\ parent_pid'[c] = p
    BY ForkFx
  <2>2. \A q \in Pids : q # c => pc'[q] = pc[q] /\ state'[q] = state[q] /\ parent_pid'[q] = parent_pid[q]
    BY ForkFx
  <2>3. /\ children'[p] = children[p] \cup {c} /\ child_count'[p] = child_count[p] + 1
        /\ \A q \in Pids : q # p => children'[q] = children[q] /\ child_count'[q] = child_count[q]
    BY ForkFx
  <2>4. /\ Allocated' = Allocated \cup {c} /\ ptable' = PtableInsert(c) /\ registered' = registered \cup {c}
        /\ UNCHANGED <<child_exit_seq, wait_queue, snap, found>>
    BY ForkFx
  <2> QED BY <2>1, <2>2, <2>3, <2>4, Zenon
<1>2. TypeOK'
  BY ForkType, Zenon
<1>3. ptable' = ptable \cup {c}
  <2>1. ptable \subseteq Pids
    BY DEF Shape, TypeOK
  <2> QED BY <1>1, <2>1, InsertFact, Zenon
<1>4. PcState'
  <2>1. PcState
    BY DEF Shape
  <2>2. ASSUME NEW q \in Pids, q # c
        PROVE  pc'[q] = pc[q] /\ state'[q] = state[q] /\ (q \in Allocated' <=> q \in Allocated)
    BY <1>1, <2>2, Zenon
  <2>3. c \in Allocated' /\ pc'[c] \in Alive /\ pc'[c] = "user" /\ state'[c] = "running"
    BY <1>1, Zenon DEF Alive
  <2> QED BY <2>1, <2>2, <2>3 DEF PcState, Alive
<1>5. Kin'
  <2>1. ptable' \subseteq Allocated'
    BY <1>1, <1>3 DEF Shape, Kin
  <2>2. \A q \in Pids : state'[q] = "running" => q \in ptable'
    BY <1>1, <1>3 DEF Shape, Kin
  <2>3. \A q \in ptable' \cup registered' : state'[q] \in {"running", "zombie"}
    BY <1>1, <1>3, SMTT(30) DEF Shape, Kin, TypeOK
  <2>4. \A q \in Pids : \A d \in children'[q] :
          d \in ptable' /\ parent_pid'[d] = q /\ state'[d] \in {"running", "zombie"}
    <3> SUFFICES ASSUME NEW q \in Pids, NEW d \in children'[q]
                 PROVE  d \in ptable' /\ parent_pid'[d] = q /\ state'[d] \in {"running", "zombie"}
      OBVIOUS
    <3>1. CASE d = c
      BY <1>1, <1>3, <3>1
    <3>2. CASE d # c
      <4>1. d \in children[q] /\ d \in Pids
        <5>1. d \in children[q]
          <6>1. children'[q] = children[q] \/ children'[q] = children[q] \cup {c}
            BY <1>1, Zenon
          <6> QED BY <3>2, <6>1
        <5>2. children[q] \subseteq Pids
          BY DEF Shape, TypeOK
        <5> QED BY <5>1, <5>2
      <4>2. d \in ptable /\ parent_pid[d] = q /\ state[d] \in {"running", "zombie"}
        BY <4>1, Zenon DEF Shape, Kin
      <4>3. d \in ptable' /\ parent_pid'[d] = parent_pid[d] /\ state'[d] = state[d]
        BY <1>1, <1>3, <3>2, <4>1, <4>2, Zenon
      <4> QED BY <4>2, <4>3, Zenon
    <3> QED BY <3>1, <3>2
  <2> QED BY <2>1, <2>2, <2>3, <2>4 DEF Kin
<1>6. Reap'
  <2>1. \A q \in Pids : pc'[q] \in Reaping => pc[q] \in Reaping /\ pc'[q] = pc[q] /\ q # c /\ q # p
    BY <1>1 DEF Reaping
  <2>2. \A q \in Pids : pc[q] \in Reaping => found[q] \in Pids /\ found[q] # c
    BY <1>1 DEF Shape, Reap, ReapOf
  <2>3. \A q \in Pids : pc[q] \in Reaping =>
          (found[q] \in ptable' => found[q] \in ptable) /\ (found[q] \in registered' => found[q] \in registered)
    BY <1>1, <1>3, <2>2
  <2>4. \A q \in Pids : pc[q] \in Reaping =>
          /\ state'[found[q]] = state[found[q]] /\ parent_pid'[found[q]] = parent_pid[found[q]]
          /\ found'[q] = found[q] /\ (q # p => children'[q] = children[q])
    BY <1>1, <2>2, Zenon
  <2>5. ASSUME NEW q \in Pids PROVE ReapOf(q)'
    <3>1. CASE pc'[q] \in Reaping
      <4>1. Reap
        BY DEF Shape
      <4> QED BY <2>1, <2>3, <2>4, <3>1, <4>1, ReapKept, Zenon
    <3>2. CASE pc'[q] \notin Reaping
      BY <3>2, Zenon DEF ReapOf, Reaping
    <3> QED BY <3>1, <3>2
  <2> QED BY <2>5, Zenon DEF Reap
<1>7. Counts'
  <2>1. Cardinality(children[p] \cup {c}) = child_count[p] + 1
    <3>1. children[p] \in SUBSET Pids /\ child_count[p] = Cardinality(children[p])
      BY DEF Shape, Counts, TypeOK
    <3>2. Cardinality(children[p] \cup {c}) = Cardinality(children[p]) + 1
      BY <1>1, <3>1, CountFacts, Zenon
    <3> QED BY <3>1, <3>2
  <2>2. \A q \in Pids : child_count[q] = Cardinality(children[q])
    BY DEF Shape, Counts
  <2>3. /\ children'[p] = children[p] \cup {c} /\ child_count'[p] = child_count[p] + 1
        /\ \A q \in Pids : q # p => children'[q] = children[q] /\ child_count'[q] = child_count[q]
    BY <1>1, Zenon
  <2> QED BY <2>1, <2>2, <2>3, Zenon DEF Counts
<1>8. Queues'
  <2>1. UNCHANGED wait_queue /\ \A q \in Pids : pc'[q] = "blocked" <=> pc[q] = "blocked"
    BY <1>1
  <2> QED BY <2>1, Zenon DEF Shape, Queues
<1>9. Notifying'
  BY <1>1 DEF Shape, Notifying
<1>10. Snaps'
  BY <1>1 DEF Shape, Snaps
<1> QED BY <1>2, <1>4, <1>5, <1>6, <1>7, <1>8, <1>9, <1>10 DEF Shape
=============================================================================
