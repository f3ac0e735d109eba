-------------------------------- MODULE Ramfs --------------------------------
(***************************************************************************)
(* The file tree and its files: crates/fs ramfs.rs (inodes, blocks,        *)
(* directories), dentry.rs (path lookup), cpio.rs (the initrd unpacked at  *)
(* boot), devfs.rs (device nodes) and syscall.rs (open, read, write,       *)
(* stat).  A file is counted in units, BlockUnits to the block; a unit     *)
(* holds the value last stored there.  Every handler is one step: none of  *)
(* them sleeps, and they run on CPU 0 with interrupts off.                 *)
(***************************************************************************)
EXTENDS Integers, Sequences, FiniteSets, FiniteSetsExt

CONSTANTS NInodes, BlockUnits, MaxBlocks, MaxChildren, NFds,
          Archive,       \* the initrd: a sequence of [kind, path, len]
          Paths,         \* the paths programs use, as sequences of names
          LongNames,     \* names longer than RAMFS_NAME_LEN
          Values, Lens,  \* what programs write, and how much at once
          SoleTruncate   \* O_TRUNC only while no descriptor of the file is past 0

VARIABLES unpacked,   \* archive entries behind the unpacker; Done at the end
          inode,      \* inodes: kind, size and blocks
          data,       \* their units
          vsize,      \* VNode.size, the copy that stat and mmap look at
          dir,        \* directories: sequences of [name, ino]
          fdesc,      \* descriptors: [ino, off, mode]
          written     \* history: units written since the last truncation

rvars == <<unpacked, inode, data, vsize, dir, fdesc, written>>

Root == 1
DevDir == 2
Done == Len(Archive) + 1
Inos == 1..NInodes
Cells == 0..(BlockUnits * MaxBlocks - 1)
NoFd == [ino |-> 0, off |-> 0, mode |-> "none"]
NoInode == [kind |-> "none", size |-> 0, blocks |-> 0]
MadeOf(nodes) == {x \in Inos : nodes[x].kind # "none"}
NewIno(nodes) == Cardinality(MadeOf(nodes)) + 1

\* init_devfs: the nodes of /dev.  null reads as empty, zero as zeros; both
\* take every write, as do the serial line and the keyboard (module Keyboard)
DevNodes == <<[name |-> "null", ino |-> 3], [name |-> "zero", ino |-> 4]>>

\* init_fs up to the initrd: the root, /dev and its nodes
RInit ==
  /\ unpacked = 0
  /\ inode = [x \in Inos |-> [NoInode EXCEPT !.kind =
                CASE x \in {Root, DevDir} -> "dir" [] x = 3 -> "null" [] x = 4 -> "zero" [] OTHER -> "none"]]
  /\ data = [x \in Inos |-> [u \in Cells |-> "zero"]]
  /\ vsize = [x \in Inos |-> 0]
  /\ dir = [x \in Inos |-> IF x = Root THEN <<[name |-> "dev", ino |-> DevDir]>>
                           ELSE IF x = DevDir THEN DevNodes ELSE <<>>]
  /\ fdesc = [d \in 1..NFds |-> NoFd]
  /\ written = [x \in Inos |-> {}]

(* ------------------------------- lookup ------------------------------ *)

\* ramfs_dir_lookup: the first entry of that name, 0 when there is none
Lookup(dirs, x, name) ==
  LET hits == {j \in DOMAIN dirs[x] : dirs[x][j].name = name}
  IN IF hits = {} THEN 0 ELSE dirs[x][Min(hits)].ino

\* path_lookup_from: component by component from the root
PathLookup(dirs, path) ==
  LET walk[j \in 0..Len(path)] ==
        IF j = 0 THEN Root
        ELSE IF walk[j - 1] = 0 THEN 0 ELSE Lookup(dirs, walk[j - 1], path[j])
  IN walk[Len(path)]

\* an entry holds the first RAMFS_NAME_LEN bytes of its name
Cut(name) == IF name \in LongNames THEN "cut" ELSE name

\* ramfs_dir_add_child: a full directory drops the entry silently
AddChild(dirs, x, name, y) ==
  IF Len(dirs[x]) < MaxChildren
    THEN [dirs EXCEPT ![x] = Append(@, [name |-> Cut(name), ino |-> y])] ELSE dirs

\* ramfs_create_child: the inode exists even if its entry does not
CreateChild(t, x, name, kind) ==
  LET y == NewIno(t.nodes)
  IN [nodes |-> [t.nodes EXCEPT ![y].kind = kind], dirs |-> AddChild(t.dirs, x, name, y), at |-> y]

(* ---------------------------- file contents -------------------------- *)

\* ramfs_write: blocks are added as far as the limit, bytes beyond the last
\* block are not stored, and the size is the end that was asked for
BlocksFor(node, end) ==
  Max({node.blocks, Min({(end + BlockUnits - 1) \div BlockUnits, MaxBlocks})})

Taken(node, off, len) ==
  {u \in Cells : off <= u /\ u < off + len /\ u < BlockUnits * BlocksFor(node, off + len)}

Contents(x, units, v) ==
  /\ data' = [data EXCEPT ![x] = [u \in Cells |-> IF u \in units THEN v ELSE @[u]]]
  /\ written' = [written EXCEPT ![x] = @ \cup units]

(* Mutant of RamfsWrite: the vnode's copy of the size is left behind. *)
RamfsWriteStaleSize(nodes, x, off, len, v) ==
  /\ inode' = [nodes EXCEPT ![x].blocks = BlocksFor(nodes[x], off + len),
                            ![x].size = Max({@, off + len})]
  /\ Contents(x, Taken(nodes[x], off, len), v) /\ UNCHANGED vsize

RamfsWrite(nodes, x, off, len, v) ==
  /\ inode' = [nodes EXCEPT ![x].blocks = BlocksFor(nodes[x], off + len),
                            ![x].size = Max({@, off + len})]
  /\ vsize' = [vsize EXCEPT ![x] = IF off + len > nodes[x].size THEN off + len ELSE @]
  /\ Contents(x, Taken(nodes[x], off, len), v)

\* ramfs_read stops at the size and at the last block
Readable(x) == {u \in Cells : u < inode[x].size /\ u < BlockUnits * inode[x].blocks}
ReadCount(x, off, len) == Cardinality({u \in Readable(x) : off <= u /\ u < off + len})

(* Mutant of RamfsTruncate: the size stays, the next reader sees the old tail. *)
RamfsTruncateNot(x) == UNCHANGED <<inode, vsize>> /\ written' = [written EXCEPT ![x] = {}]

\* ramfs_truncate(0): both sizes; the blocks and what they hold stay
RamfsTruncate(x) ==
  IF inode[x].kind = "file"
    THEN /\ inode' = [inode EXCEPT ![x].size = 0] /\ vsize' = [vsize EXCEPT ![x] = 0]
         /\ written' = [written EXCEPT ![x] = {}]
    ELSE UNCHANGED <<inode, vsize, written>>

(* ------------------------- the initrd at boot ------------------------ *)

LookupOrCreate(t, name, kind) ==
  LET found == Lookup(t.dirs, t.at, name)
  IN IF found # 0 THEN [t EXCEPT !.at = found] ELSE CreateChild(t, t.at, name, kind)

\* ensure_path and ensure_dir: the directories of a path, then its last name
EnsurePath(path, leaf) ==
  LET walk[j \in 0..Len(path)] ==
        IF j = 0 THEN [nodes |-> inode, dirs |-> dir, at |-> Root]
        ELSE LookupOrCreate(walk[j - 1], path[j], IF j = Len(path) THEN leaf ELSE "dir")
  IN walk[Len(path)]

\* unpack_cpio, one entry: files and directories are made, everything else is
\* skipped; the trailer or the end of the archive ends it
Unpack ==
  /\ unpacked < Done
  /\ IF unpacked = Len(Archive) \/ Archive[unpacked + 1].kind = "trailer"
       THEN unpacked' = Done /\ UNCHANGED <<inode, data, vsize, dir, written>>
       ELSE LET e == Archive[unpacked + 1]
                t == EnsurePath(e.path, e.kind)
            IN /\ unpacked' = unpacked + 1
               /\ IF e.kind \notin {"file", "dir"} \/ e.path = <<>>
                    THEN UNCHANGED <<inode, data, vsize, dir, written>>
                    ELSE /\ dir' = t.dirs
                         /\ IF e.kind = "dir" THEN inode' = t.nodes /\ UNCHANGED <<data, vsize, written>>
                            ELSE RamfsWrite(t.nodes, t.at, 0, e.len, "boot")
  /\ UNCHANGED fdesc

(* ---------------------------- system calls --------------------------- *)

FreeFd == {d \in DOMAIN fdesc : fdesc[d] = NoFd}

\* FdTable::alloc; with no slot left the caller gets EMFILE and what open
\* did before stays
FdFor(x, mode) == fdesc' = IF FreeFd = {} THEN fdesc
                           ELSE [fdesc EXCEPT ![Min(FreeFd)] = [ino |-> x, off |-> 0, mode |-> mode]]

\* sys_open of a path that is there
Open(path, mode, trunc) ==
  /\ unpacked = Done
  /\ LET x == PathLookup(dir, path)
     IN /\ x # 0
        /\ trunc /\ SoleTruncate => \A d \in DOMAIN fdesc : fdesc[d].ino = x => fdesc[d].off = 0
        /\ IF trunc THEN RamfsTruncate(x) ELSE UNCHANGED <<inode, vsize, written>>
        /\ FdFor(x, mode)
  /\ UNCHANGED <<unpacked, data, dir>>

\* split_parent: the directory a path names, and nothing for "/"
Parent(path) == SubSeq(path, 1, Len(path) - 1)

\* sys_open with O_CREAT of a path that is not there
Create(path, mode) ==
  /\ unpacked = Done /\ path # <<>> /\ PathLookup(dir, path) = 0 /\ NewIno(inode) \in Inos
  /\ LET x == PathLookup(dir, Parent(path))
         t == CreateChild([nodes |-> inode, dirs |-> dir], x, path[Len(path)], "file")
     IN /\ x # 0 /\ inode[x].kind = "dir"
        /\ inode' = t.nodes /\ dir' = t.dirs /\ FdFor(t.at, mode)
  /\ UNCHANGED <<unpacked, data, vsize, written>>

\* fd_advance, within the bound of the model
Advance(d, n) == /\ fdesc' = [fdesc EXCEPT ![d].off = @ + n]
                 /\ fdesc'[d].off <= BlockUnits * MaxBlocks

\* sys_write: to a file at the descriptor's offset; a device takes it all
Write(d, len, v) ==
  /\ fdesc[d].mode = "w" /\ inode[fdesc[d].ino].kind # "dir"
  /\ LET x == fdesc[d].ino
     IN IF inode[x].kind = "file"
          THEN RamfsWrite(inode, x, fdesc[d].off, len, v) /\ Advance(d, Cardinality(Taken(inode[x], fdesc[d].off, len)))
          ELSE Advance(d, len) /\ UNCHANGED <<inode, data, vsize, written>>
  /\ UNCHANGED <<unpacked, dir>>

\* sys_read: the offset moves by what was read, nothing at the end of a file
Read(d, len) ==
  /\ fdesc[d].mode = "r" /\ inode[fdesc[d].ino].kind \in {"file", "zero"}
  /\ Advance(d, IF inode[fdesc[d].ino].kind = "zero" THEN len ELSE ReadCount(fdesc[d].ino, fdesc[d].off, len))
  /\ UNCHANGED <<unpacked, inode, data, vsize, dir, written>>

\* dup copies the entry with the offset of the moment
Dup(d) ==
  /\ fdesc[d] # NoFd /\ FreeFd # {}
  /\ fdesc' = [fdesc EXCEPT ![Min(FreeFd)] = fdesc[d]]
  /\ UNCHANGED <<unpacked, inode, data, vsize, dir, written>>

Close(d) ==
  /\ fdesc[d] # NoFd /\ fdesc' = [fdesc EXCEPT ![d] = NoFd]
  /\ UNCHANGED <<unpacked, inode, data, vsize, dir, written>>

RNext ==
  \/ Unpack
  \/ \E path \in Paths, mode \in {"r", "w"} :
       Create(path, mode) \/ \E trunc \in BOOLEAN : Open(path, mode, trunc)
  \/ \E d \in 1..NFds :
       \/ Dup(d) \/ Close(d)
       \/ \E len \in Lens : Read(d, len) \/ \E v \in Values : Write(d, len, v)

RSpec == RInit /\ [][RNext]_rvars

(* ---------------------------- properties ---------------------------- *)

\* No unit from before a truncation can be read again: what can be read of a
\* file was written since, or is zero (O_TRUNC: "drop its contents so
\* re-running `cmd > file` cannot leave a longer previous file's tail
\* behind").  Holds while nobody truncates a file under a descriptor that is
\* past its start: the blocks are not cleared.
NoOldContents ==
  \A x \in MadeOf(inode) : \A u \in Readable(x) : u \in written[x] \/ data[x][u] = "zero"

\* stat, mmap and write-back see the size that read and write use.
SizesAgree == \A x \in MadeOf(inode) : vsize[x] = inode[x].size

\* A path names one file: no directory holds two entries of one name, so
\* what was created is what every later open finds, at boot (directories
\* shared by archive entries) and after.  Names that were cut are excepted.
NamesUnique ==
  \A x \in MadeOf(inode) : \A j, k \in DOMAIN dir[x] :
    dir[x][j].name = dir[x][k].name => (j = k \/ dir[x][j].name = "cut")
=============================================================================
