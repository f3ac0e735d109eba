--------------------------------- MODULE Pci ---------------------------------
(***************************************************************************)
(* PCI enumeration at boot (crates/pci): the scan and the device table     *)
(* (lib.rs), BAR sizing, the capability walk, and the MSI-X capability     *)
(* (msix.rs).  Registers are words modulo WordMod (2^32); the low 16 of a  *)
(* memory BAR and the low 4 of an I/O BAR are flags, as in the code.  The  *)
(* functions and their registers are external: a BAR of size s keeps only  *)
(* the address bits from s up.                                             *)
(***************************************************************************)
EXTENDS Integers, Sequences, FiniteSets

CONSTANTS WordMod, MAX_PCI_DEVICES, CapGuard,
          PciBuses  \* machines: functions in scan order, [at, func, present, multi,
                    \* header, ids, bars, capList, caps, first, control], with
                    \* bars[i] = [kind, size, base], caps[p] = [id, next]

VARIABLES pbus, fi, pcipc,     \* the machine; the function probed; where probe_function is
          breg, decode, errs,  \* its BAR registers, whether it decodes, its Status error bits
          bari, orig, cmd,     \* decode_bars' index, the value read first, the command saved
          found,               \* the device being filled in
          devices              \* PCI_TABLE

pcivars == <<pbus, fi, pcipc, breg, decode, errs, bari, orig, cmd, found, devices>>

Here == pbus[fi]
Down(v, n) == v - (v % n)

\* external: what a write of v leaves in BAR i, and what the firmware left there
Latched(bars, i, v) ==
  LET b == bars[i] IN
  CASE b.kind = "io"   -> Down(v, b.size) + 1
    [] b.kind = "m32"  -> Down(v, b.size)
    [] b.kind = "m64"  -> (IF b.size < WordMod THEN Down(v, b.size) ELSE 0) + 4
    [] b.kind = "high" -> IF b.size < WordMod THEN v ELSE Down(v, b.size \div WordMod)
    [] OTHER           -> 0
Firmware(bars) == [i \in 0..5 |-> Latched(bars, i, IF bars[i].kind = "high" THEN bars[i].base \div WordMod
                                                   ELSE bars[i].base % WordMod)]

\* bar_is_io, bar_is_mmio_64
BarIsIo(low) == low % 2 = 1
BarIsMmio64(low) == low % 2 = 0 /\ (low \div 2) % 4 = 2

(* Mutant of Size64: each half is sized on its own. *)
Size64Low(lo, hi) == IF lo = 0 THEN 0 ELSE WordMod - lo

\* size32_from_masked_readback, size64_from_masked_readback: !masked + 1
Size32(masked) == IF masked = 0 THEN 0 ELSE WordMod - masked
Size64(lo, hi) == IF lo + hi * WordMod = 0 THEN 0 ELSE WordMod * WordMod - (lo + hi * WordMod)

\* find_capability: none without STATUS_CAP_LIST, whatever the pointer holds; the
\* list may be a ring, so the walk is bounded
FindCapability(f, id) ==
  LET ptr[g \in 0..CapGuard] == IF g = 0 THEN IF f.capList THEN f.first ELSE 0
                                ELSE IF ptr[g - 1] = 0 THEN 0 ELSE f.caps[ptr[g - 1]].next
      hits == {g \in 0..(CapGuard - 1) : ptr[g] # 0 /\ f.caps[ptr[g]].id = id}
  IN  IF hits = {} THEN 0 ELSE ptr[CHOOSE g \in hits : \A h \in hits : g <= h]

\* read_msix_cap: the control field holds the table's size less one
MsixTableSize(f) == IF FindCapability(f, "msix") = 0 THEN 0 ELSE f.control + 1

NoBars == [i \in 0..5 |-> [base |-> 0, mmio |-> FALSE, size |-> 0]]

PciInit ==
  /\ pbus \in PciBuses /\ fi = 1 /\ pcipc = "probe"
  /\ breg = Firmware(pbus[1].bars) /\ decode = TRUE /\ errs = TRUE
  /\ bari = 0 /\ orig = 0 /\ cmd = FALSE /\ found = NoBars /\ devices = <<>>

\* the next function enumerate_pci looks at: all of the others of a device only
\* when its function 0 is there and says it has more
NextFunction ==
  LET later == {j \in (fi + 1)..Len(pbus) :
                  \/ pbus[j].func = 0
                  \/ \E k \in 1..Len(pbus) : /\ pbus[k].at = pbus[j].at /\ pbus[k].func = 0
                                             /\ pbus[k].present /\ pbus[k].multi}
  IN  IF later = {} THEN 0 ELSE CHOOSE j \in later : \A k \in later : j <= k

Advance ==
  IF NextFunction = 0 THEN pcipc' = "done" /\ UNCHANGED <<fi, breg, decode, errs>>
  ELSE /\ fi' = NextFunction /\ pcipc' = "probe"
       /\ breg' = Firmware(pbus[NextFunction].bars) /\ decode' = TRUE /\ errs' = TRUE

\* probe_function: no vendor, no device; only a type 0 header has these BARs
ProbeFunction ==
  /\ pcipc = "probe" /\ found' = NoBars
  /\ IF Here.present
     THEN pcipc' = (IF Here.header = 0 THEN "disable" ELSE "push") /\ UNCHANGED <<fi, breg, decode, errs>>
     ELSE Advance
  /\ UNCHANGED <<pbus, bari, orig, cmd, devices>>

\* pci_config_write_u16 on the command: the word write puts Status back as read,
\* which clears its error bits
WriteCommand(on) == decode' = on /\ errs' = FALSE

\* pci_config_write_u32 on a BAR
WriteBar(i, v) == breg' = [breg EXCEPT ![i] = Latched(Here.bars, i, v)]

\* decode_bars: the command is saved and decoding goes off
DisableDecode ==
  /\ pcipc = "disable"
  /\ cmd' = decode /\ WriteCommand(FALSE) /\ bari' = 0 /\ pcipc' = "ones"
  /\ UNCHANGED <<pbus, fi, breg, orig, found, devices>>

WriteOnes ==
  /\ pcipc = "ones"
  /\ IF bari < 6 THEN /\ orig' = breg[bari] /\ WriteBar(bari, WordMod - 1)
                      /\ pcipc' = "size"
     ELSE pcipc' = "enable" /\ UNCHANGED <<orig, breg>>
  /\ UNCHANGED <<pbus, fi, decode, errs, bari, cmd, found, devices>>

\* the readback, the original written back, and what they say of the BAR
SizeBar ==
  /\ pcipc = "size"
  /\ WriteBar(bari, orig)
  /\ LET back == breg[bari]
         mem(size) == [base |-> Down(orig, 16), mmio |-> TRUE, size |-> size] IN
     IF BarIsIo(orig)
     THEN /\ found' = [found EXCEPT ![bari] = [base |-> Down(orig, 4), mmio |-> FALSE, size |-> Size32(Down(back, 4))]]
          /\ bari' = bari + 1 /\ pcipc' = "ones"
     ELSE IF BarIsMmio64(orig)
     THEN found' = [found EXCEPT ![bari] = mem(Down(back, 16))] /\ pcipc' = "oneshigh" /\ UNCHANGED bari
     ELSE found' = [found EXCEPT ![bari] = mem(Size32(Down(back, 16)))] /\ bari' = bari + 1 /\ pcipc' = "ones"
  /\ UNCHANGED <<pbus, fi, decode, errs, orig, cmd, devices>>

\* the upper half of a 64-bit BAR, and two BARs on
WriteOnesHigh ==
  /\ pcipc = "oneshigh"
  /\ orig' = breg[bari + 1] /\ WriteBar(bari + 1, WordMod - 1)
  /\ pcipc' = "sizehigh"
  /\ UNCHANGED <<pbus, fi, decode, errs, bari, cmd, found, devices>>

SizeBarHigh ==
  /\ pcipc = "sizehigh"
  /\ WriteBar(bari + 1, orig)
  /\ found' = [found EXCEPT ![bari].base = @ + orig * WordMod,
                            ![bari].size = Size64(found[bari].size, breg[bari + 1])]
  /\ bari' = bari + 2 /\ pcipc' = "ones"
  /\ UNCHANGED <<pbus, fi, decode, errs, orig, cmd, devices>>

EnableDecode ==
  /\ pcipc = "enable"
  /\ WriteCommand(cmd) /\ pcipc' = "push"
  /\ UNCHANGED <<pbus, fi, breg, bari, orig, cmd, found, devices>>

\* the capability, push while there is room, and on to the next function
Push ==
  /\ pcipc = "push"
  /\ devices' = IF Len(devices) = MAX_PCI_DEVICES THEN devices
                ELSE Append(devices, [fn |-> fi, bars |-> found,
                                      msix |-> IF Here.header = 0 THEN MsixTableSize(Here) ELSE 0])
  /\ Advance /\ UNCHANGED <<pbus, bari, orig, cmd, found>>

\* find_device
FindDevice(ids) == {i \in DOMAIN devices : /\ pbus[devices[i].fn].ids = ids
                                           /\ \A j \in 1..(i - 1) : pbus[devices[j].fn].ids # ids}

PciNext == \/ ProbeFunction \/ DisableDecode \/ WriteOnes \/ SizeBar \/ WriteOnesHigh \/ SizeBarHigh
           \/ EnableDecode \/ Push
PciSpec == PciInit /\ [][PciNext]_pcivars

(* ---------------------------- properties ---------------------------- *)

\* The table has, for each function listed, the base and the size its BARs
\* really have, 64-bit ones included and no half of one taken for a BAR;
\* an MSI-X capability is found wherever it is in the list.
BarsExact ==
  \A d \in DOMAIN devices :
    LET f == pbus[devices[d].fn] IN
    /\ f.header = 0 => \A i \in 0..5 :
         devices[d].bars[i] =
           CASE f.bars[i].kind = "io" -> [base |-> f.bars[i].base, mmio |-> FALSE, size |-> f.bars[i].size]
             [] f.bars[i].kind \in {"m32", "m64"} -> [base |-> f.bars[i].base, mmio |-> TRUE, size |-> f.bars[i].size]
             [] f.bars[i].kind = "high" -> NoBars[i]
             [] OTHER -> [base |-> 0, mmio |-> TRUE, size |-> 0]
    /\ devices[d].msix = (IF f.header = 0 /\ f.capList /\ \E p \in DOMAIN f.caps : f.caps[p].id = "msix" THEN f.control + 1 ELSE 0)
    /\ FindDevice(f.ids) # {}

\* A function that answers on the bus has the addresses the firmware gave it:
\* while a register holds all ones, and before it is restored, it is silent.
NoStrayDecode == decode => breg = Firmware(Here.bars)
=============================================================================
