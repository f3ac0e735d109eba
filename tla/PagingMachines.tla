--------------------------- MODULE PagingMachines ---------------------------
(* Machines for the runs of Paging: memory maps, the kernel image and the  *)
(* device windows, in units of which a page has two and a table eight.     *)
EXTENDS Integers, Sequences

Region(b, e, t) == [base |-> b, length |-> e - b, type |-> t]
Section(a, b, fl) == [from |-> a, to |-> b, flags |-> fl]

Ram == {"present", "writable", "global", "no_execute"}
MCImage == <<Section(64, 68, {"present", "global"}),
             Section(68, 70, {"present", "global", "no_execute"}),
             Section(70, 72, Ram), Section(72, 128, Ram)>>

MCMaps ==
  {<<Region(2, 40, "usable"), Region(43, 45, "acpi"), Region(45, 48, "reserved"),
     Region(64, 128, "image"), Region(130, 150, "bootloader"),
     Region(160, 192, "framebuffer"), Region(256, 270, "usable")>>,
   <<Region(0, 36, "usable"), Region(64, 128, "image"), Region(128, 138, "usable"),
     Region(138, 142, "framebuffer"), Region(142, 182, "usable")>>}

MCMachines ==
  {[memmap |-> m, image |-> MCImage, pool |-> 72, apic |-> <<192, 224>>,
    features |-> f, cr3 |-> c] :
     m \in MCMaps, f \in {{"pcid", "smep", "smap"}, {"smep"}}, c \in {0, 1}}

\* A region that contains an aligned 1 GiB (here 128 units).
MCBigMachines ==
  {[memmap |-> <<Region(2, 40, "usable"), Region(64, 128, "image"),
                 Region(128, 300, "usable")>>,
    image |-> MCImage, pool |-> 72, apic |-> <<320, 352>>, features |-> {"smep"},
    cr3 |-> 0]}

MCBars == {<<225, 3>>, <<240, 1>>, <<300, 0>>, <<450, 20>>}
=============================================================================
