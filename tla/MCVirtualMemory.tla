-------------------------- MODULE MCVirtualMemory --------------------------
(* Values of the constants for TLC: two processes, text, stack and the     *)
(* mmap region, and a view that forgets which frame and which space slot   *)
(* is which.                                                               *)
EXTENDS VirtualMemory, TLC

MCSpaces == 1..3
MCPages == 1..3
MCOffsets == {0}
MCSymmetry == Permutations(Procs)

\* A frame is known by its claims, a space by its owner.  vref, which no
\* guard reads, is left out.
Claims(f) == <<{<<p, q>> \in Procs \X Pages : owner[p] # 0 /\ pt[owner[p]][q].f = f},
               {o \in Offsets : cache[o] = f}>>

Seen(f) == IF f = 0 THEN <<>> ELSE <<Claims(f), content[f], cow[f], f \in free>>

Of(p, x, none) == IF owner[p] = 0 THEN none ELSE x[owner[p]]

MCView ==
  <<st, run, {p \in Procs : owner[p] = loaded},
    {p \in Procs : owner[p] = owner[First]}, [p \in Procs |-> Of(p, refs, 0)],
    [p \in Procs |-> [q \in Pages |-> LET e == Of(p, pt, NoTable)[q] IN <<Seen(e.f), e.w, e.c>>]],
    [p \in Procs |-> <<Of(p, vmas, NoVmas), Of(p, mmap_next, Base)>>],
    [o \in Offsets |-> Seen(cache[o])], Cardinality(free), dirty, file>>
=============================================================================
