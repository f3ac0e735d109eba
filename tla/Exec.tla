-------------------------------- MODULE Exec --------------------------------
(***************************************************************************)
(* Phase 1 of execve: the file is read into a buffer, parse_elf checks and *)
(* page-aligns its PT_LOAD segments, map_segment copies them into a new    *)
(* address space page by page, and setup_stack packs the argument and      *)
(* environment strings and the block of pointers to them below the top of  *)
(* the new stack.  What phase 2 does to the process is in modules          *)
(* VirtualMemory and Signals.                                              *)
(*                                                                         *)
(* Addresses and file offsets count scaled bytes: a page has PageLen of    *)
(* them, a stack word WordLen, and the stack alignment of the ABI is two   *)
(* words.  The file's byte at offset i is the number i + 1 and 0 is the    *)
(* zero byte, so a copy of the wrong byte shows.                           *)
(***************************************************************************)
EXTENDS Integers, Sequences, FiniteSets, TLC

CONSTANTS PageLen, WordLen,
          USER_TOP, USTACK_TOP, USTACK_PAGES,
          SIGRETURN_TRAMPOLINE_VA,
          MAX_LOAD_SEGMENTS, MAX_ARGV, MAX_ENVP,
          Files,      \* what load_exec_file may return
          ArgLists    \* <<argv, envp>>, each a sequence of strings

VARIABLES xfile, xargs, xpc,
          xsegs,   \* the LoadSegments not mapped yet
          virt,    \* the next page of the first of them
          xpages,  \* page -> [bytes, w, x]: the user half of new_as
          strptrs, \* string_ptrs
          rsp,     \* str_rsp, then the final rsp
          elfbuf   \* the order-8 buffer is allocated

xvars == <<xfile, xargs, xpc, xsegs, virt, xpages, strptrs, rsp, elfbuf>>

PageDown(a) == a - (a % PageLen)
Mapped(a) == PageDown(a) \in DOMAIN xpages
AlignUp(a) == PageDown(a + PageLen - 1)
Strings == xargs[1] \o xargs[2]

XInit == /\ xfile \in Files /\ xargs \in ArgLists
         /\ xpc = "load" /\ xsegs = <<>> /\ virt = 0 /\ xpages = <<>>
         /\ strptrs = <<>> /\ rsp = 0 /\ elfbuf = FALSE

----------------------------------------------------------------------------
(* parse_elf.  Every error becomes ENOEXEC, so the errors are one.  The    *)
(* sums are unbounded here and checked in the code: one past 2^64 is past  *)
(* USER_TOP and past the file's length too.                                *)

HeaderValid(f) ==
    /\ f.header
    /\ Len(f.phdrs) <= MAX_LOAD_SEGMENTS
    /\ f.phdrEnd <= f.len

LoadValid(f, ph) ==
    /\ ph.align >= PageLen
    /\ \E n \in 0 .. 10 : ph.align = 2 ^ n
    /\ ph.vaddr < USER_TOP
    /\ ph.vaddr + ph.memsz <= USER_TOP
    /\ ph.memsz >= ph.filesz
    /\ ph.offset + ph.filesz <= f.len
    /\ ph.offset >= ph.vaddr % PageLen

Loads(f) == SelectSeq(f.phdrs, LAMBDA ph : ph.load)

\* A mutant: the file bytes before p_vaddr are not counted in filesz.
LoadSegmentShort(ph) ==
    LET off == ph.vaddr % PageLen IN
    [vaddr |-> ph.vaddr - off, filesz |-> ph.filesz, memsz |-> ph.memsz + off,
     data |-> ph.offset - off, w |-> ph.w, x |-> ph.x]

LoadSegment(ph) ==
    LET off == ph.vaddr % PageLen IN
    [vaddr |-> ph.vaddr - off, filesz |-> ph.filesz + off,
     memsz |-> ph.memsz + off, data |-> ph.offset - off, w |-> ph.w, x |-> ph.x]

----------------------------------------------------------------------------
(* do_execve *)

TooBig == Len(xargs[1]) > MAX_ARGV \/ Len(xargs[2]) > MAX_ENVP

\* E2BIG before the buffer is allocated; ENOENT, EIO or ENOEXEC after it is freed
LoadFile ==
    /\ xpc = "load"
    /\ xpc' = IF TooBig \/ xfile.len <= 0 THEN "failed" ELSE "parse"
    /\ elfbuf' = (~ TooBig /\ xfile.len > 0)
    /\ UNCHANGED <<xfile, xargs, xsegs, virt, xpages, strptrs, rsp>>

ParseElf ==
    /\ xpc = "parse"
    /\ LET ls == Loads(xfile) IN
       IF HeaderValid(xfile) /\ \A i \in DOMAIN ls : LoadValid(xfile, ls[i])
       THEN /\ xsegs' = [i \in DOMAIN ls |-> LoadSegment(ls[i])]
            /\ virt' = IF ls = <<>> THEN 0 ELSE LoadSegment(ls[1]).vaddr
            /\ xpc' = "map"
            /\ UNCHANGED elfbuf
       ELSE /\ xpc' = "failed"
            /\ elfbuf' = FALSE
            /\ UNCHANGED <<xsegs, virt>>
    /\ UNCHANGED <<xfile, xargs, xpages, strptrs, rsp>>

\* One round of map_segment's loop: a zeroed frame, the part of the file that
\* falls into it, and map_page, which replaces whatever the page held.
MapSegmentPage ==
    LET seg   == Head(xsegs)
        start == virt - seg.vaddr IN
    /\ xpc = "map" /\ xsegs # <<>>
    /\ virt < AlignUp(seg.vaddr + seg.memsz)
    /\ xpages' = virt :> [bytes |-> [i \in 0 .. PageLen - 1 |->
                                        IF start + i < seg.filesz
                                        THEN seg.data + start + i + 1 ELSE 0],
                          w |-> seg.w, x |-> seg.x] @@ xpages
    /\ virt' = virt + PageLen
    /\ UNCHANGED <<xfile, xargs, xpc, xsegs, strptrs, rsp, elfbuf>>

NextSegment ==
    LET seg == Head(xsegs) IN
    /\ xpc = "map" /\ xsegs # <<>>
    /\ virt >= AlignUp(seg.vaddr + seg.memsz)
    /\ xsegs' = Tail(xsegs)
    /\ virt' = IF Len(xsegs) > 1 THEN xsegs[2].vaddr ELSE 0
    /\ UNCHANGED <<xfile, xargs, xpc, xpages, strptrs, rsp, elfbuf>>

ZeroBytes == [i \in 0 .. PageLen - 1 |-> 0]

\* The stack starts one word below USTACK_TOP.
MapUserStack ==
    /\ xpc = "map" /\ xsegs = <<>>
    /\ xpages' = [p \in {USTACK_TOP - i * PageLen : i \in 1 .. USTACK_PAGES} |->
                     [bytes |-> ZeroBytes, w |-> TRUE, x |-> FALSE]] @@ xpages
    /\ rsp' = USTACK_TOP - WordLen
    /\ xpc' = "trampoline"
    /\ UNCHANGED <<xfile, xargs, xsegs, virt, strptrs, elfbuf>>

MapSigreturnTrampoline ==
    /\ xpc = "trampoline"
    /\ xpages' = SIGRETURN_TRAMPOLINE_VA :>
                   [bytes |-> ZeroBytes, w |-> FALSE, x |-> TRUE] @@ xpages
    /\ xpc' = "strings"
    /\ UNCHANGED <<xfile, xargs, xsegs, virt, strptrs, rsp, elfbuf>>

----------------------------------------------------------------------------
(* setup_stack *)

\* write_bytes_to_user: a copy of the function `bytes`, whatever pages its
\* domain crosses, then on to `next`; a page that is not mapped is a panic.
WriteToUser(bytes, next) ==
    IF \A a \in DOMAIN bytes : Mapped(a)
    THEN /\ xpages' = [p \in DOMAIN xpages |->
                         [xpages[p] EXCEPT !.bytes =
                            [i \in 0 .. PageLen - 1 |->
                               IF p + i \in DOMAIN bytes THEN bytes[p + i] ELSE @[i]]]]
         /\ xpc' = next
    ELSE xpc' = "panic" /\ UNCHANGED xpages

\* A string is pushed below the last one with its terminating zero.
PushString ==
    LET s  == Strings[Len(strptrs) + 1]
        at == rsp - (Len(s) + 1) IN
    /\ xpc = "strings" /\ Len(strptrs) < Len(Strings)
    /\ WriteToUser([a \in at .. at + Len(s) |->
                       IF a < at + Len(s) THEN s[a - at + 1] ELSE 0], "strings")
    /\ strptrs' = Append(strptrs, at)
    /\ rsp' = at
    /\ UNCHANGED <<xfile, xargs, xsegs, virt, elfbuf>>

\* The words from the final rsp up: argc, argv, NULL, envp, NULL, AT_NULL.
Block == LET argc == Len(xargs[1]) IN
         <<argc>> \o SubSeq(strptrs, 1, argc) \o <<0>>
         \o SubSeq(strptrs, argc + 1, Len(strptrs)) \o <<0, 0, 0>>

BlockTop(n) ==
    LET aligned == rsp - (rsp % (2 * WordLen)) IN
    IF aligned % (2 * WordLen) # (n * WordLen) % (2 * WordLen)
    THEN aligned - WordLen ELSE aligned

\* Byte k of the word v, told apart from every other byte and from the bytes
\* of strings and files.
WordByte(v, k) == 1000 + v * WordLen + k

PushBlock ==
    LET n    == Len(Block)
        base == BlockTop(n) - n * WordLen IN
    /\ xpc = "strings" /\ Len(strptrs) = Len(Strings)
    /\ WriteToUser([a \in base .. base + n * WordLen - 1 |->
                      WordByte(Block[(a - base) \div WordLen + 1], (a - base) % WordLen)], "ring3")
    /\ rsp' = base
    /\ elfbuf' = FALSE
    /\ UNCHANGED <<xfile, xargs, xsegs, virt, strptrs>>

XNext == \/ LoadFile \/ ParseElf \/ MapSegmentPage \/ NextSegment
         \/ MapUserStack \/ MapSigreturnTrampoline \/ PushString \/ PushBlock

XSpec == XInit /\ [][XNext]_xvars

----------------------------------------------------------------------------
PageOf(a) == xpages[PageDown(a)]
ByteAt(a) == PageOf(a).bytes[a % PageLen]

(***************************************************************************)
(* The image the program header table describes is the image that runs:    *)
(* when ring 3 is entered, every byte of every PT_LOAD segment is mapped   *)
(* with the segment's permissions and holds the file's byte, or zero past  *)
(* p_filesz, whatever the offset of p_vaddr in its page; every page lies   *)
(* below USER_TOP; and the buffer the file was read into is free, as it is *)
(* after every failure.  The arguments never run out of the stack, whose   *)
(* first unmapped page would be a panic.  It assumes that no page is       *)
(* shared by two segments or by a segment and the stack or the trampoline, *)
(* which parse_elf does not check.                                         *)
(***************************************************************************)
ImageExact ==
    /\ xpc = "ring3" =>
         /\ \A i \in DOMAIN Loads(xfile) :
              LET ph == Loads(xfile)[i] IN
              \A k \in 0 .. ph.memsz - 1 :
                /\ Mapped(ph.vaddr + k)
                /\ ByteAt(ph.vaddr + k) = IF k < ph.filesz
                                          THEN ph.offset + k + 1 ELSE 0
                /\ PageOf(ph.vaddr + k).w = ph.w /\ PageOf(ph.vaddr + k).x = ph.x
         /\ \A p \in DOMAIN xpages : p + PageLen <= USER_TOP
    /\ xpc \in {"ring3", "failed"} => ~ elfbuf
    /\ xpc # "panic"

WordAt(a) == (ByteAt(a) - 1000) \div WordLen

\* The bytes from a on are the string s and a zero.
HoldsString(a, s) == /\ \A k \in 1 .. Len(s) : ByteAt(a + k - 1) = s[k]
                     /\ ByteAt(a + Len(s)) = 0

(***************************************************************************)
(* The new program finds its arguments: when ring 3 is entered the stack   *)
(* pointer is aligned as the ABI requires at process entry, and reading    *)
(* upwards from it gives argc, a pointer to each argument and NULL, a      *)
(* pointer to each environment string and NULL, and the auxiliary vector's *)
(* end, with every string still whole below the top of the stack: the      *)
(* block and the strings never overlap, however the lengths fall.          *)
(***************************************************************************)
StackExact ==
    xpc = "ring3" =>
      LET argc == Len(xargs[1])
          envc == Len(xargs[2])
          Slot(i) == WordAt(rsp + i * WordLen) IN
      /\ rsp % (2 * WordLen) = 0
      /\ \A i \in 0 .. argc + envc + 4 : \A k \in 0 .. WordLen - 1 :
            ByteAt(rsp + i * WordLen + k) = WordByte(Slot(i), k)
      /\ Slot(0) = argc
      /\ \A i \in 1 .. argc : HoldsString(Slot(i), xargs[1][i])
      /\ Slot(argc + 1) = 0
      /\ \A i \in 1 .. envc : HoldsString(Slot(argc + 1 + i), xargs[2][i])
      /\ \A i \in argc + envc + 2 .. argc + envc + 4 : Slot(i) = 0
=============================================================================
