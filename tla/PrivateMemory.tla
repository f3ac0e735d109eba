--------------------------- MODULE PrivateMemory ---------------------------
(***************************************************************************)
(* What address spaces promise to user programs: every space has its own   *)
(* private pages.  A store is seen by the storing space alone, a fork      *)
(* starts from the contents of its parent, and nothing else changes a      *)
(* page.  No frames, no sharing and no faults appear here.  A page of a    *)
(* private file mapping reads "file" until it is stored to; a page of a    *)
(* shared mapping is not private and reads "shared".                       *)
(***************************************************************************)
CONSTANTS Spaces, Pages, Text, Stack, Values

VARIABLES mem

NoPage == [p \in Pages |-> "none"]

Image == [NoPage EXCEPT ![Text] = "orig", ![Stack] = "zero"]

Init == \E s \in Spaces :
          mem = [t \in Spaces |-> IF t = s THEN Image ELSE NoPage]

Only(s) == \A t \in Spaces \ {s} : mem'[t] = mem[t]

Becomes(s, p, v) == \A q \in Pages : mem'[s][q] = IF q = p THEN v ELSE mem[s][q]

Store(s) == \E p \in Pages : /\ mem[s][p] \in Values \cup {"file"}
                             /\ mem'[s][p] \in Values
                             /\ Becomes(s, p, mem'[s][p])

\* an unused space starts as a copy of another one
Fork(t) == mem[t] = NoPage /\ \E s \in Spaces : mem'[t] = mem[s]

\* unused pages of s become pages of one mapping
Map(s) == \E k \in {"zero", "file", "shared"} :
            \A p \in Pages : \/ mem'[s][p] = mem[s][p]
                             \/ mem[s][p] = "none" /\ mem'[s][p] = k

\* pages of s go away: munmap, or all of them with the space
Unmap(s) == \A p \in Pages : mem'[s][p] \in {mem[s][p], "none"}

\* execve builds an image in an unused space; the old space goes away with
\* its last reference, and loses nothing otherwise
Replace(s, t) ==
  /\ s # t /\ mem[t] = NoPage /\ mem'[t] = Image
  /\ mem'[s] \in {mem[s], NoPage}
  /\ \A u \in Spaces \ {s, t} : mem'[u] = mem[u]

Next == \/ \E s \in Spaces : Only(s) /\ (Store(s) \/ Fork(s) \/ Map(s) \/ Unmap(s))
        \/ \E s, t \in Spaces : Replace(s, t)

Spec == Init /\ [][Next]_mem
=============================================================================
