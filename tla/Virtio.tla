------------------------------- MODULE Virtio -------------------------------
(***************************************************************************)
(* The virtio-net driver: discovery and the status handshake               *)
(* (crates/virtio/src/device.rs), the split queues (queue.rs), receive and *)
(* transmit (net.rs), init and the interrupt's entry (lib.rs, msix.rs of   *)
(* crates/pci).  The device is external: it takes posted buffers in any    *)
(* order it likes to fill them, and signals each used entry by an MSI-X    *)
(* message.  Ring indices run modulo IdxMod (65536) and not modulo the     *)
(* queue size.  A frame is its number modulo FrameMod; `whole` says of     *)
(* the frame in a buffer that its used entry passes poll_rx's check of the *)
(* length.  (The check of the id always passes: the device returns what it *)
(* was given.)                                                             *)
(***************************************************************************)
EXTENDS Integers, Sequences, FiniteSets

CONSTANTS MAX_QUEUE_SIZE, RX_BUFFER_COUNT, IdxMod, FrameMod,
          NetDevices \* what may be plugged in: [table, caps, features, keeps, size, txsize,
                     \* msix], with the PCI table and the vendor capabilities <<type, bar>>

VARIABLES dev,       \* the device plugged in
          vpc,       \* where init is
          devStatus, setup,       \* device_status; what has been programmed
          avail, availMem, availIdx,   \* available ring, its idx field, the driver's copy
          used, usedMem, lastUsed,     \* used ring, its idx field, the driver's cursor
          devAvail, devHas, devUsed,   \* device: cursor, buffers it holds, its own used idx
          buf, whole, rxNo,            \* buffer contents, whether long enough, frames received
          taken, lost,                 \* the last frame taken, buffers of refused entries
          message, hpc, inHand,        \* pending message, the handler, its buffer
          tx                           \* the transmit descriptor

vvars == <<dev, vpc, devStatus, setup, avail, availMem, availIdx, used, usedMem, lastUsed,
           devAvail, devHas, devUsed, buf, whole, rxNo, taken, lost, message, hpc, inHand, tx>>

Bufs  == 0..(RX_BUFFER_COUNT - 1)
QSize == IF dev.size < MAX_QUEUE_SIZE THEN dev.size ELSE MAX_QUEUE_SIZE
None  == -1
VirtioNet == "virtio_net"
Inc(i) == (i + 1) % IdxMod

(* Mutant of RingSlot: the index wraps with the ring. *)
RingSlotPlain(idx) == idx % (MAX_QUEUE_SIZE + 1)

\* ring_slot
RingSlot(idx) == idx % QSize

VInit ==
  /\ dev \in NetDevices /\ vpc = "find" /\ devStatus = {} /\ setup = {}
  /\ avail = [s \in 0..MAX_QUEUE_SIZE |-> 0] /\ availMem = 0 /\ availIdx = 0
  /\ used = [s \in 0..MAX_QUEUE_SIZE |-> 0] /\ usedMem = 0 /\ lastUsed = 0
  /\ devAvail = 0 /\ devHas = {} /\ devUsed = 0
  /\ buf = [b \in Bufs |-> 0] /\ whole = [b \in Bufs |-> TRUE] /\ rxNo = 0
  /\ taken = 0 /\ lost = {}
  /\ message = FALSE /\ hpc = "out" /\ inHand = None /\ tx = "idle"

Rings   == <<avail, availMem, availIdx, used, usedMem, lastUsed>>
Device  == <<devAvail, devHas, devUsed, buf, whole, rxNo>>
NetHandler == <<taken, lost, message, hpc, inHand>>

(* -------------------------------- init ------------------------------- *)

\* find_virtio_net: the first of the PCI table with the vendor and the class
FindVirtioNet(table) == {i \in DOMAIN table : /\ table[i] = VirtioNet
                                              /\ \A j \in 1..(i - 1) : table[j] # VirtioNet}

\* walk_virtio_caps: a later capability of a type replaces an earlier one
WalkVirtioCaps(caps) ==
  [t \in {caps[i][1] : i \in DOMAIN caps} |->
     LET last == CHOOSE i \in DOMAIN caps : /\ caps[i][1] = t
                                            /\ \A j \in DOMAIN caps : caps[j][1] = t => j <= i
     IN  caps[last][2]]

\* negotiate_features, device_feature, set_driver_feature
NegotiateFeatures(offered) == offered \cap {"mac", "version_1"}

HasVersion1(features) == "version_1" \in features

\* init up to the transport: no device, or one without the modern regions, ends it
Find ==
  /\ vpc = "find"
  /\ vpc' = IF /\ FindVirtioNet(dev.table) # {}
               /\ {"common", "notify", "device"} \subseteq DOMAIN WalkVirtioCaps(dev.caps)
            THEN "reset" ELSE "none"
  /\ UNCHANGED <<dev, devStatus, setup, tx>> /\ UNCHANGED Rings /\ UNCHANGED Device /\ UNCHANGED NetHandler

\* negotiate: reset, acknowledge, then the version is mandatory
Negotiate ==
  /\ vpc = "reset"
  /\ IF HasVersion1(NegotiateFeatures(dev.features))
     THEN devStatus' = {"ack", "driver", "features_ok"} /\ vpc' = "confirm"
     ELSE devStatus' = {"ack", "driver", "failed"} /\ vpc' = "none"
  /\ UNCHANGED <<dev, setup, tx>> /\ UNCHANGED Rings /\ UNCHANGED Device /\ UNCHANGED NetHandler

\* the device keeps FEATURES_OK or not; init then asks for both queues' sizes
Confirm ==
  /\ vpc = "confirm"
  /\ IF dev.keeps THEN vpc' = (IF QSize = 0 \/ dev.txsize = 0 THEN "none" ELSE "queues") /\ UNCHANGED devStatus
     ELSE devStatus' = {"ack", "driver", "failed"} /\ vpc' = "none"
  /\ UNCHANGED <<dev, setup, tx>> /\ UNCHANGED Rings /\ UNCHANGED Device /\ UNCHANGED NetHandler

\* Virtqueue::new and setup_queue, for the receive and then the transmit queue
SetupQueue(q, after) ==
  /\ setup' = setup \cup {q} /\ vpc' = after
  /\ UNCHANGED <<dev, devStatus, tx>> /\ UNCHANGED Rings /\ UNCHANGED Device /\ UNCHANGED NetHandler

SetupRx == vpc = "queues" /\ SetupQueue("rx", "txqueue")
SetupTx == vpc = "txqueue" /\ SetupQueue("tx", "msix")

\* msix_enable: a device without the capability, or with no table entry for
\* the queue, panics
MsixEnable ==
  /\ vpc = "msix"
  /\ IF dev.msix THEN setup' = setup \cup {"msix"} /\ vpc' = "fill"
     ELSE vpc' = "panic" /\ UNCHANGED setup
  /\ UNCHANGED <<dev, devStatus, tx>> /\ UNCHANGED Rings /\ UNCHANGED Device /\ UNCHANGED NetHandler

\* fill_rx: buffer after buffer
FillRx ==
  /\ vpc = "fill"
  /\ IF availIdx < RX_BUFFER_COUNT
     THEN /\ avail' = [avail EXCEPT ![RingSlot(availIdx)] = availIdx]
          /\ availIdx' = Inc(availIdx) /\ availMem' = Inc(availIdx)
          /\ UNCHANGED vpc
     ELSE vpc' = "go" /\ UNCHANGED <<avail, availMem, availIdx>>
  /\ UNCHANGED <<dev, devStatus, setup, tx, used, usedMem, lastUsed>> /\ UNCHANGED Device /\ UNCHANGED NetHandler

SetDriverOk ==
  /\ vpc = "go"
  /\ devStatus' = {"ack", "driver", "features_ok", "driver_ok"} /\ vpc' = "transmit"
  /\ UNCHANGED <<dev, setup, tx>> /\ UNCHANGED Rings /\ UNCHANGED Device /\ UNCHANGED NetHandler

\* transmit: the self-test's one frame
Transmit ==
  /\ vpc = "transmit"
  /\ tx' = "posted" /\ vpc' = "poll"
  /\ UNCHANGED <<dev, devStatus, setup>> /\ UNCHANGED Rings /\ UNCHANGED Device /\ UNCHANGED NetHandler

\* the bounded wait ends with the completion or without; then the device is
\* published in VIRTIO_NET, and interrupts come on when boot is over
PollTx ==
  /\ vpc = "poll"
  /\ vpc' = "ready"
  /\ UNCHANGED <<dev, devStatus, setup, tx>> /\ UNCHANGED Rings /\ UNCHANGED Device /\ UNCHANGED NetHandler

(* ------------------------- the device (external) --------------------- *)

Live == "driver_ok" \in devStatus

DevTx == Live /\ tx = "posted" /\ tx' = "used"
         /\ UNCHANGED <<dev, vpc, devStatus, setup>> /\ UNCHANGED Rings /\ UNCHANGED Device /\ UNCHANGED NetHandler

DevTake ==
  /\ Live /\ devAvail # availMem
  /\ devHas' = devHas \cup {avail[RingSlot(devAvail)]} /\ devAvail' = Inc(devAvail)
  /\ UNCHANGED <<dev, vpc, devStatus, setup, tx, devUsed, buf, whole, rxNo>> /\ UNCHANGED Rings /\ UNCHANGED NetHandler

\* a frame arrives: buffer, used entry, and only then the index
DevFill(b, ok) ==
  /\ b \in devHas /\ devUsed = usedMem
  /\ rxNo' = (rxNo + 1) % FrameMod /\ buf' = [buf EXCEPT ![b] = rxNo'] /\ whole' = [whole EXCEPT ![b] = ok]
  /\ used' = [used EXCEPT ![RingSlot(devUsed)] = b]
  /\ devUsed' = Inc(devUsed) /\ devHas' = devHas \ {b}
  /\ UNCHANGED <<dev, vpc, devStatus, setup, tx, devAvail, avail, availMem, availIdx, usedMem, lastUsed>>
  /\ UNCHANGED NetHandler

DevSignal ==
  /\ devUsed # usedMem
  /\ usedMem' = devUsed /\ message' = TRUE
  /\ UNCHANGED <<dev, vpc, devStatus, setup, tx, avail, availMem, availIdx, used, lastUsed, taken, lost, hpc, inHand>>
  /\ UNCHANGED Device

(* ----------------------------- the handler --------------------------- *)

\* virtio_rx_handler: EOI first, so a later message is pending again
NetEnter ==
  /\ vpc = "ready" /\ message /\ hpc = "out"
  /\ message' = FALSE /\ hpc' = "pop"
  /\ UNCHANGED <<dev, vpc, devStatus, setup, tx, taken, lost, inHand>> /\ UNCHANGED Rings /\ UNCHANGED Device

\* pop_used, and on_frame for what it returns; an entry shorter than the header
\* is passed over, and its buffer posted no more
PopUsed ==
  /\ hpc = "pop"
  /\ IF usedMem = lastUsed THEN hpc' = "out" /\ UNCHANGED <<lastUsed, inHand, taken, lost>>
     ELSE LET id == used[RingSlot(lastUsed)] IN
          /\ lastUsed' = Inc(lastUsed) /\ taken' = buf[id]
          /\ IF whole[id] THEN inHand' = id /\ hpc' = "post" /\ UNCHANGED lost
             ELSE lost' = lost \cup {id} /\ UNCHANGED <<hpc, inHand>>
  /\ UNCHANGED <<dev, vpc, devStatus, setup, tx, avail, availMem, availIdx, used, usedMem, message>>
  /\ UNCHANGED Device

(* Mutant of PushEntry: one frame per interrupt. *)
PushEntryOnce ==
  /\ hpc = "post"
  /\ avail' = [avail EXCEPT ![RingSlot(availIdx)] = inHand]
  /\ availIdx' = Inc(availIdx) /\ availMem' = Inc(availIdx) /\ inHand' = None /\ hpc' = "out"
  /\ UNCHANGED <<dev, vpc, devStatus, setup, tx, used, usedMem, lastUsed, taken, lost, message>>
  /\ UNCHANGED Device

\* push_avail: the ring entry, a fence, the index
PushEntry ==
  /\ hpc = "post"
  /\ avail' = [avail EXCEPT ![RingSlot(availIdx)] = inHand]
  /\ availIdx' = Inc(availIdx) /\ hpc' = "publish"
  /\ UNCHANGED <<dev, vpc, devStatus, setup, tx, availMem, used, usedMem, lastUsed, taken, lost, message, inHand>>
  /\ UNCHANGED Device

PublishAvail ==
  /\ hpc = "publish"
  /\ availMem' = availIdx /\ inHand' = None /\ hpc' = "pop"
  /\ UNCHANGED <<dev, vpc, devStatus, setup, tx, avail, availIdx, used, usedMem, lastUsed, taken, lost, message>>
  /\ UNCHANGED Device

VNext == \/ Find \/ Negotiate \/ Confirm \/ SetupRx \/ SetupTx \/ MsixEnable \/ FillRx \/ SetDriverOk \/ Transmit \/ PollTx
         \/ DevTx \/ DevTake \/ (\E b \in Bufs, ok \in BOOLEAN : DevFill(b, ok)) \/ DevSignal
         \/ NetEnter \/ PopUsed \/ PushEntry \/ PublishAvail

VSpec == VInit /\ [][VNext]_vvars

(* ---------------------------- properties ---------------------------- *)

Between(i, j) == (j - i + IdxMod) % IdxMod
InAvail == {avail[RingSlot(devAvail + k)] : k \in 0..(Between(devAvail, availMem) - 1)}
InUsed  == {used[RingSlot(lastUsed + k)] : k \in 0..(Between(lastUsed, devUsed) - 1)}

\* Every receive buffer has one owner at a time, driver or device, however
\* often the 16-bit indices wrap: no buffer is filled twice, and none is out of
\* use but those of the entries poll_rx refused.
BuffersOwned ==
  vpc = "ready" =>
    LET hand == {inHand} \ {None} IN
    /\ InAvail \cup devHas \cup InUsed \cup hand \cup lost = Bufs
    /\ Between(devAvail, availMem) + Cardinality(devHas) + Between(lastUsed, devUsed)
         + Cardinality(hand) + Cardinality(lost) = RX_BUFFER_COUNT
    /\ \A b \in lost : ~whole[b]

\* Frames are taken in the order they came, none twice and none passed over,
\* and never from a buffer that has been given back to the device: those that
\* wait in the used ring are the ones after the last one taken.
FramesInOrder ==
  \A k \in 0..(Between(lastUsed, devUsed) - 1) :
    buf[used[RingSlot(lastUsed + k)]] = (taken + k + 1) % FrameMod

\* A used entry the driver has not seen always has a message pending or a
\* handler that will still look: no frame waits for the next one to come.
NoFrameForgotten == (usedMem # lastUsed) => message \/ hpc # "out"

\* The device is told DRIVER_OK only with everything it will use in place.
LiveIsSetUp ==
  Live => /\ HasVersion1(dev.features) /\ dev.keeps /\ QSize # 0 /\ dev.txsize # 0 /\ "failed" \notin devStatus
          /\ setup = {"rx", "tx", "msix"}

\* Every receive buffer has one owner at a time, the driver giving up only those
\* of refused entries, and the device is live only with all it uses in place
\* (virtio-net's init and poll_rx).
DeviceSound == BuffersOwned /\ LiveIsSetUp

\* No frame waits unseen, and frames are taken in the order they came,
\* none twice and none passed over (virtio_rx_handler's loop, pop_used).
FramesKept == NoFrameForgotten /\ FramesInOrder
=============================================================================
