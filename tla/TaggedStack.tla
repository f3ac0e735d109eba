----------------------------- MODULE TaggedStack -----------------------------
(***************************************************************************)
(* The lock-free free list of crates/memory: AtomicTaggedStack             *)
(* (tagged_stack.rs), PerCpuSlab over it (slab.rs), and the FreeList of    *)
(* buddy.rs, which has the same two loops.  A node's link lives in the     *)
(* free memory itself: whoever holds the node overwrites it.  The head is  *)
(* a node and a tag that every successful exchange increments.             *)
(***************************************************************************)
EXTENDS Naturals, FiniteSets

CONSTANTS Users,      \* CPUs or threads that alloc and free
          SlabNodes,  \* the objects of the slabs, numbers from 1
          Null, MaxTag  \* bound: successful exchanges

VARIABLES top, link,
          upc, mine,        \* what a user does, and the nodes it holds
          seen, next, node  \* its copy of the head, of a link; the node it pushes

stvars == <<top, link, upc, mine, seen, next, node>>

\* add_slab has pushed every object before the slab is used
StInit ==
  /\ top = [ptr |-> Cardinality(SlabNodes), tag |-> 0]
  /\ link = [n \in SlabNodes |-> n - 1]
  /\ upc = [u \in Users |-> "out"] /\ mine = [u \in Users |-> {}]
  /\ seen = [u \in Users |-> [ptr |-> Null, tag |-> 0]]
  /\ next = [u \in Users |-> Null] /\ node = [u \in Users |-> Null]

Set(f, u, v) == [f EXCEPT ![u] = v]

\* alloc = pop: load the head; null is None
PopLoad(u) ==
  /\ upc[u] = "out" /\ top.ptr # Null
  /\ seen' = Set(seen, u, top) /\ upc' = Set(upc, u, "link")
  /\ UNCHANGED <<top, link, mine, next, node>>

\* the link is read from a node that may meanwhile belong to another
PopLink(u) ==
  /\ upc[u] = "link"
  /\ next' = Set(next, u, link[seen[u].ptr]) /\ upc' = Set(upc, u, "take")
  /\ UNCHANGED <<top, link, mine, seen, node>>

(* Mutant of PopCas: the pointer alone is compared. *)
PopCasNoTag(u) ==
  /\ upc[u] = "take" /\ top.tag < MaxTag
  /\ IF top.ptr = seen[u].ptr
     THEN /\ top' = [ptr |-> next[u], tag |-> top.tag + 1]
          /\ mine' = Set(mine, u, mine[u] \cup {seen[u].ptr})
     ELSE UNCHANGED <<top, mine>>
  /\ upc' = Set(upc, u, "out")
  /\ UNCHANGED <<link, seen, next, node>>

PopCas(u) ==
  /\ upc[u] = "take" /\ top.tag < MaxTag
  /\ IF top = seen[u]
     THEN /\ top' = [ptr |-> next[u], tag |-> top.tag + 1]
          /\ mine' = Set(mine, u, mine[u] \cup {seen[u].ptr})
     ELSE UNCHANGED <<top, mine>>
  /\ upc' = Set(upc, u, "out")
  /\ UNCHANGED <<link, seen, next, node>>

\* the holder writes over the memory, the link included
Scribble(u, n, x) ==
  /\ n \in mine[u]
  /\ link' = [link EXCEPT ![n] = x]
  /\ UNCHANGED <<top, upc, mine, seen, next, node>>

\* free = push: the caller gives up the node, loads the head, writes the link
PushLoad(u, n) ==
  /\ upc[u] = "out" /\ n \in mine[u]
  /\ mine' = Set(mine, u, mine[u] \ {n}) /\ node' = Set(node, u, n)
  /\ seen' = Set(seen, u, top) /\ upc' = Set(upc, u, "store")
  /\ UNCHANGED <<top, link, next>>

PushLink(u) ==
  /\ upc[u] = "store"
  /\ link' = [link EXCEPT ![node[u]] = seen[u].ptr] /\ upc' = Set(upc, u, "put")
  /\ UNCHANGED <<top, mine, seen, next, node>>

\* a failed exchange loads the head again
PushCas(u) ==
  /\ upc[u] = "put" /\ top.tag < MaxTag
  /\ IF top = seen[u]
     THEN /\ top' = [ptr |-> node[u], tag |-> top.tag + 1]
          /\ node' = Set(node, u, Null) /\ upc' = Set(upc, u, "out") /\ UNCHANGED seen
     ELSE seen' = Set(seen, u, top) /\ upc' = Set(upc, u, "store") /\ UNCHANGED <<top, node>>
  /\ UNCHANGED <<link, mine, next>>

StNext ==
  \E u \in Users :
    \/ PopLoad(u) \/ PopLink(u) \/ PopCas(u) \/ PushLink(u) \/ PushCas(u)
    \/ \E n \in SlabNodes : PushLoad(u, n) \/ \E x \in SlabNodes \cup {Null} : Scribble(u, n, x)

StSpec == StInit /\ [][StNext]_stvars

(* ---------------------------- properties ---------------------------- *)

\* a set of nodes that holds the first one and, with a node, the one it links to
Closed(first, links, S) == {first} \cup {links[n] : n \in S} \subseteq S \cup {Null}

\* the nodes on a list: those in every closed set
OnList(first, links) ==
  {n \in SlabNodes : \A S \in SUBSET SlabNodes : Closed(first, links, S) => n \in S}

Free == OnList(top.ptr, link)

\* Every object is in exactly one place: on the free list, with one user, or
\* in the hands of one push.  No interleaving of alloc and free hands an
\* object out twice or loses one, though links are read from memory that
\* another user may already be writing.
ObjectsAccounted ==
  /\ Free \cup UNION {mine[u] \cup ({node[u]} \ {Null}) : u \in Users} = SlabNodes
  /\ \A u \in Users : Free \cap (mine[u] \cup {node[u]}) = {} /\ node[u] \notin mine[u]
  /\ \A u, v \in Users : u # v => (mine[u] \cup ({node[u]} \ {Null})) \cap (mine[v] \cup {node[v]}) = {}
=============================================================================
