---------------------------- MODULE Descriptors ----------------------------
(***************************************************************************)
(* File descriptors of crates/proc/src/fd.rs and the life of a pipe's two  *)
(* ends in crates/fs/src/pipe.rs: a pipe end is alive as long as its vnode *)
(* has references, one per descriptor.  fork, dup, dup2, close, exit and   *)
(* pipe move references; close and exit first empty the table slot and     *)
(* then, outside the table's lock, release the vnode.  pipe_read and       *)
(* pipe_write are one step each here (module Pipe has their interleavings) *)
(* and a failing call that changes nothing is no step.                     *)
(***************************************************************************)
EXTENDS Integers, Sequences, FiniteSets, FiniteSetsExt

CONSTANTS Procs, First, NFds, NPipes, RingCap,
          Users, Used,   \* the processes and descriptors of DNext
          TidyDup2   \* dup2 never replaces the last descriptor of a pipe end

VARIABLES state,    \* of each process: "unborn", "live", "exiting", "zombie", "reaped"
          fds,      \* descriptor tables: 0 is an empty slot
          closing,  \* open_vns: taken out of the table and not released yet, by slot
          refs,     \* VNode.refcount of the pipe ends
          made,     \* pipes created
          failed,   \* those whose descriptors could not be installed
          ring,     \* bytes in each pipe
          asleep    \* the end a process sleeps on in pipe_read or pipe_write, or 0

dvars == <<state, fds, closing, refs, made, failed, ring, asleep>>

Fds   == 0..(NFds - 1)
Pipes == 1..NPipes
Ends  == 1..(2 * NPipes)
Dev   == 2 * NPipes + 1            \* /dev/serial and /dev/keyboard
ReadEnd(k)  == 2 * k - 1
WriteEnd(k) == 2 * k
PipeOf(e)   == (e + 1) \div 2
Peer(e)     == IF e % 2 = 1 THEN e + 1 ELSE e - 1
IsRead(e)   == e \in Ends /\ e % 2 = 1
IsWrite(e)  == e \in Ends /\ e % 2 = 0

Released(p) == \A d \in Fds : closing[p][d] = 0
Ready(p) == state[p] = "live" /\ Released(p) /\ asleep[p] = 0

(* ------------------------- descriptor tables ------------------------- *)

HasFree(t) == \E d \in DOMAIN t : t[d] = 0
Lowest(t)  == Min({d \in DOMAIN t : t[d] = 0})

\* FdTable::alloc; a full table is left as it is (EMFILE)
FdAlloc(t, e) == IF HasFree(t) THEN [t EXCEPT ![Lowest(t)] = e] ELSE t

\* references by vnode: only the counts of pipe ends are ever looked at
IncRef(r, e) == IF e \in Ends THEN [r EXCEPT ![e] = @ + 1] ELSE r
DecRef(r, e) == IF e \in Ends THEN [r EXCEPT ![e] = @ - 1] ELSE r

\* clone_for_fork: one more reference for every occupied slot
CloneRefs(r, t) == [e \in Ends |-> r[e] + Cardinality({d \in Fds : t[d] = e})]

\* 0, 1 and 2 are open, and possibly more that First inherited
DInit(open) ==
  /\ state = [p \in Procs |-> IF p = First THEN "live" ELSE "unborn"]
  /\ fds = [p \in Procs |-> [d \in Fds |-> IF p = First /\ d < open THEN Dev ELSE 0]]
  /\ closing = [p \in Procs |-> [d \in Fds |-> 0]]
  /\ refs = [e \in Ends |-> 0]
  /\ made = 0 /\ failed = {}
  /\ ring = [k \in Pipes |-> 0]
  /\ asleep = [p \in Procs |-> 0]

Fork(p, q) ==
  /\ Ready(p) /\ state[q] = "unborn"
  /\ state' = [state EXCEPT ![q] = "live"]
  /\ fds' = [fds EXCEPT ![q] = fds[p]]
  /\ refs' = CloneRefs(refs, fds[p])
  /\ UNCHANGED <<closing, made, failed, ring, asleep>>

Dup(p, d) ==
  /\ Ready(p) /\ fds[p][d] # 0 /\ HasFree(fds[p])
  /\ fds' = [fds EXCEPT ![p] = FdAlloc(@, fds[p][d])]
  /\ refs' = IncRef(refs, fds[p][d])
  /\ UNCHANGED <<state, closing, made, failed, ring, asleep>>

\* dup2 drops the reference of the descriptor it replaces without the
\* release hook: nobody is woken
Dup2(p, d, n) ==
  /\ Ready(p) /\ d # n /\ fds[p][d] # 0
  /\ TidyDup2 => (fds[p][n] \in Ends => refs[fds[p][n]] > 1)
  /\ fds' = [fds EXCEPT ![p][n] = fds[p][d]]
  /\ refs' = IncRef(DecRef(refs, fds[p][n]), fds[p][d])
  /\ UNCHANGED <<state, closing, made, failed, ring, asleep>>

\* sys_pipe: the two lowest free descriptors; with room for one only, the
\* first is taken back and the new pipe is lost
SysPipe(p) ==
  /\ Ready(p) /\ made < NPipes
  /\ LET k == made + 1
         t == FdAlloc(fds[p], ReadEnd(k))
         u == FdAlloc(t, WriteEnd(k))
     IN /\ made' = k
        /\ refs' = [refs EXCEPT ![ReadEnd(k)] = 1, ![WriteEnd(k)] = 1]
        /\ IF HasFree(fds[p]) /\ HasFree(t)
             THEN fds' = [fds EXCEPT ![p] = u] /\ failed' = failed
             ELSE /\ fds' = [fds EXCEPT ![p] = [d \in Fds |-> IF t[d] = ReadEnd(k) THEN 0 ELSE t[d]]]
                  /\ failed' = failed \cup {k}
  /\ UNCHANGED <<state, closing, ring, asleep>>

\* what a descriptor's release has to do; a device's does nothing
ToRelease(e) == IF e \in Ends THEN e ELSE 0

\* sys_close up to the release
Close(p, d) ==
  /\ Ready(p) /\ fds[p][d] # 0
  /\ fds' = [fds EXCEPT ![p][d] = 0]
  /\ closing' = [closing EXCEPT ![p][d] = ToRelease(fds[p][d])]
  /\ UNCHANGED <<state, refs, made, failed, ring, asleep>>

WakeAll(s, e) == [q \in Procs |-> IF s[q] = e THEN 0 ELSE s[q]]

\* the slot a process releases next: exit goes through them in order
NextSlot(p) == Min({d \in Fds : closing[p][d] # 0})

(* Mutant of Release: the last reference goes without a wake. *)
ReleaseQuietly(p) ==
  /\ ~Released(p)
  /\ closing' = [closing EXCEPT ![p][NextSlot(p)] = 0]
  /\ refs' = DecRef(refs, closing[p][NextSlot(p)])
  /\ UNCHANGED <<state, fds, made, failed, ring, asleep>>

\* pipe_read_release, pipe_write_release: the last reference to an end wakes
\* every sleeper of the other end
Release(p) ==
  /\ ~Released(p)
  /\ LET e == closing[p][NextSlot(p)]
     IN /\ refs' = DecRef(refs, e)
        /\ asleep' = IF refs[e] = 1 THEN WakeAll(asleep, Peer(e)) ELSE asleep
  /\ closing' = [closing EXCEPT ![p][NextSlot(p)] = 0]
  /\ UNCHANGED <<state, fds, made, failed, ring>>

\* Process::exit: every descriptor is taken out of the table first
OpenVns(t) == [d \in Fds |-> ToRelease(t[d])]

Exit(p) ==
  /\ Ready(p)
  /\ state' = [state EXCEPT ![p] = "exiting"]
  /\ closing' = [closing EXCEPT ![p] = OpenVns(fds[p])]
  /\ fds' = [fds EXCEPT ![p] = [d \in Fds |-> 0]]
  /\ UNCHANGED <<refs, made, failed, ring, asleep>>

BecomeZombie(p) ==
  /\ state[p] = "exiting" /\ Released(p)
  /\ state' = [state EXCEPT ![p] = "zombie"]
  /\ UNCHANGED <<fds, closing, refs, made, failed, ring, asleep>>

(* ------------------------- reading and writing ----------------------- *)

WakeOne(e) == IF \E q \in Procs : asleep[q] = e
                THEN \E q \in Procs : asleep[q] = e /\ asleep' = [asleep EXCEPT ![q] = 0]
                ELSE asleep' = asleep

Read(p, d) ==
  /\ Ready(p) /\ IsRead(fds[p][d]) /\ ring[PipeOf(fds[p][d])] > 0
  /\ \E n \in 1..ring[PipeOf(fds[p][d])] : ring' = [ring EXCEPT ![PipeOf(fds[p][d])] = @ - n]
  /\ WakeOne(Peer(fds[p][d]))
  /\ UNCHANGED <<state, fds, closing, refs, made, failed>>

\* reader_step_when_empty: end of file, or sleep while a writer is alive
AtEof(p, d) == /\ Ready(p) /\ IsRead(fds[p][d]) /\ ring[PipeOf(fds[p][d])] = 0
               /\ refs[Peer(fds[p][d])] = 0

ReadSleep(p, d) ==
  /\ Ready(p) /\ IsRead(fds[p][d]) /\ ring[PipeOf(fds[p][d])] = 0
  /\ refs[Peer(fds[p][d])] > 0
  /\ asleep' = [asleep EXCEPT ![p] = fds[p][d]]
  /\ UNCHANGED <<state, fds, closing, refs, made, failed, ring>>

AtEpipe(p, d) == Ready(p) /\ IsWrite(fds[p][d]) /\ refs[Peer(fds[p][d])] = 0

Write(p, d) ==
  /\ Ready(p) /\ IsWrite(fds[p][d]) /\ refs[Peer(fds[p][d])] > 0
  /\ ring[PipeOf(fds[p][d])] < RingCap
  /\ \E n \in 1..(RingCap - ring[PipeOf(fds[p][d])]) :
       ring' = [ring EXCEPT ![PipeOf(fds[p][d])] = @ + n]
  /\ WakeOne(Peer(fds[p][d]))
  /\ UNCHANGED <<state, fds, closing, refs, made, failed>>

\* writer_step_when_full
WriteSleep(p, d) ==
  /\ Ready(p) /\ IsWrite(fds[p][d]) /\ refs[Peer(fds[p][d])] > 0
  /\ ring[PipeOf(fds[p][d])] = RingCap
  /\ asleep' = [asleep EXCEPT ![p] = fds[p][d]]
  /\ UNCHANGED <<state, fds, closing, refs, made, failed, ring>>

DNext ==
  \E p \in Users :
    \/ SysPipe(p) \/ Exit(p) \/ Release(p) \/ BecomeZombie(p)
    \/ \E q \in Users : Fork(p, q)
    \/ \E d \in Used : \/ Dup(p, d) \/ Close(p, d)
                       \/ Read(p, d) \/ ReadSleep(p, d) \/ Write(p, d) \/ WriteSleep(p, d)
                       \/ \E n \in Used : Dup2(p, d, n)

DSpec(open) == DInit(open) /\ [][DNext]_dvars

(* ---------------------------- properties ---------------------------- *)

\* where a vnode occurs in a family of tables
Slots(tables, e) == {s \in Procs \X Fds : tables[s[1]][s[2]] = e}
Holders(e) == Cardinality(Slots(fds, e)) + Cardinality(Slots(closing, e))

\* A pipe end's reference count is the number of descriptors that name it
\* plus those being closed, over all processes: fork, dup, dup2, close and
\* exit keep "reader/writer liveness IS the end-VNode refcount" exact, so
\* end of file and EPIPE are reported when the last descriptor has gone and
\* not before.
EndsCounted ==
  \A k \in 1..made : \A e \in {ReadEnd(k), WriteEnd(k)} :
    refs[e] = Holders(e) + (IF k \in failed THEN 1 ELSE 0)

\* Nobody sleeps on a pipe whose other end has gone: the release that drops
\* the last reference wakes every sleeper (and a failed pipe has none).
SleepersHavePeers == \A p \in Procs : asleep[p] # 0 => refs[Peer(asleep[p])] > 0
=============================================================================
