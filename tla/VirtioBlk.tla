----------------------------- MODULE VirtioBlk -----------------------------
(***************************************************************************)
(* The virtio-blk driver over the legacy (port-I/O) virtio transport:     *)
(* drivers/virtio_blk.c on top of drivers/virtio_legacy.c.                 *)
(*                                                                         *)
(* The driver is one thread of control (interrupts masked): disk_init,    *)
(* then any sequence of disk_read_sectors / disk_write_sectors calls, each *)
(* of which pushes a three-descriptor chain, notifies the device and      *)
(* spins on the status byte.  The device is the other actor: it runs      *)
(* concurrently with the CPU, takes chains from the avail ring, performs  *)
(* them, stores the status byte and only then publishes the chain in the  *)
(* used ring (the order in which QEMU's virtio_blk_req_complete stores    *)
(* the status and then calls virtqueue_push).  The device serves one      *)
(* chain at a time, in avail order.                                       *)
(***************************************************************************)
EXTENDS Naturals, Sequences, Bitwise, SequencesExt

CONSTANTS
  NumDescs,      \* queue size the device reports in VIRTIO_REG_NUM_DESCS
  IdxWidth,      \* width of avail->index and used->index (uint16_t)
  MaxReqs,       \* bound on the number of disk requests the driver issues
  Lbas, Vals,    \* sector addresses and sector contents
  DevStatuses,   \* completion statuses the device may store
  S_OK, S_IOERR, S_UNSUPP,
  IN_PROGRESS,   \* IN_PROGRESS_STATUS (0xff), pre-written by the driver
  PciBus         \* PCI functions by <<bus, slot>>: [vendor, device, bar0]

ASSUME NumDescs \in 1..4096                 \* ASSERT in virtq_init
ASSUME 2^IdxWidth % NumDescs = 0            \* legacy queue sizes: powers of 2
ASSUME DevStatuses \subseteq {S_OK, S_IOERR, S_UNSUPP}

\* Device status bits (virtio.h, virtio_legacy.h).
VIRTIO_STATUS_ACK == 1
VIRTIO_STATUS_DRIVER == 2
VIRTIO_STATUS_DRIVER_OK == 4
VIRTIO_STATUS_FEAT_OK == 82
DEVICE_STATUS_FEATURES_OK == 8

Desc == 0 .. NumDescs - 1
IdxMod == 2^IdxWidth
\* The three buffers of a request, by the address a descriptor holds.
Addrs == {"none", "hdr", "data", "status"}
DescRec == [addr : Addrs, flags : SUBSET {"NEXT", "WRITE"}, next : Desc]
ZeroDesc == [addr |-> "none", flags |-> {}, next |-> 0]

VARIABLES
  pc,         \* where the driver is: its init steps, "idle", "poll", halts
  devStatus,  \* the device status register
  vq,         \* driver-owned virtqueue state and descriptor/avail memory
  used,       \* the device-written used ring: [ring, idx]
  header,     \* the request header on the submitting call's stack
  status,     \* the status byte on the submitting call's stack
  buf,        \* the caller's data buffer
  reqs,       \* number of requests pushed so far
  dev,        \* device: [cursor, kick, phase, head, req]
  disk        \* sector contents

vars == <<pc, devStatus, vq, used, header, status, buf, reqs, dev, disk>>

-----------------------------------------------------------------------------
(* Descriptor chains and the free list.                                    *)

\* Following `next` k times from d.
RECURSIVE Walk(_, _, _)
Walk(descs, d, k) == IF k = 0 THEN d ELSE Walk(descs, descs[d].next, k - 1)

\* The descriptors of the chain that starts at d: follow `next` while the
\* NEXT flag is set (at most NumDescs of them).
RECURSIVE ChainFrom(_, _, _)
ChainFrom(descs, d, fuel) ==
  IF fuel = 0 THEN <<>>
  ELSE IF "NEXT" \in descs[d].flags
         THEN <<d>> \o ChainFrom(descs, descs[d].next, fuel - 1)
         ELSE <<d>>

Chain(v, h) == ChainFrom(v.descs, h, NumDescs)

\* The free list as virtq_push walks it: num_free_descs links from free_head.
FreeList(v) == [i \in 1 .. v.numFree |-> Walk(v.descs, v.freeHead, i - 1)]

-----------------------------------------------------------------------------
(* virtio_legacy.c                                                         *)

\* The virtqueue before virtq_init: zero-initialised statics.
VqZero ==
  [descs |-> [d \in Desc |-> ZeroDesc], freeHead |-> 0, numFree |-> 0,
   avail |-> [i \in Desc |-> 0], availIdx |-> 0, lastUsed |-> 0]

\* Variants: the tail of the freed chain not linked to the old free list;
\* the freed descriptors miscounted by one.
FreeUsedChainNoLink(v) ==
  LET id == used.ring[v.lastUsed % NumDescs]
      c == Chain(v, id)
  IN [v EXCEPT !.freeHead = id, !.numFree = @ + Len(c), !.lastUsed = @ + 1]
FreeUsedChainMiscount(v) ==
  LET id == used.ring[v.lastUsed % NumDescs]
      c == Chain(v, id)
      tail == c[Len(c)]
  IN [v EXCEPT !.descs[tail].next = v.freeHead, !.freeHead = id,
               !.numFree = @ + Len(c) - 1, !.lastUsed = @ + 1]

\* Return one completed chain, the one in used->ring[last_used_index], to
\* the head of the free list.
FreeUsedChain(v) ==
  LET id == used.ring[v.lastUsed % NumDescs]
      c == Chain(v, id)
      tail == c[Len(c)]
  IN [v EXCEPT !.descs[tail].next = v.freeHead,
               !.freeHead = id,
               !.numFree = @ + Len(c),
               !.lastUsed = @ + 1]

\* "Try freeing used descriptors": until last_used_index equals used->index.
\* last_used_index is an int that is never wrapped, used->index a uint16_t:
\* once the device's index has wrapped the two are never equal again.  The
\* recursion stops where the loop would read used->ring past the last chain
\* the driver pushed (a slot the device has not written this lap): the
\* loop runs away there, re-freeing descriptors already free.
RECURSIVE Reclaim(_)
Reclaim(v) ==
  IF v.lastUsed = used.idx \/ v.lastUsed = reqs THEN v
  ELSE Reclaim(FreeUsedChain(v))

\* Variant: free_head not moved past the descriptors taken.
FillChainNoAdvance(v, chain) ==
  LET n == Len(chain)
      ds == [i \in 1 .. n |-> Walk(v.descs, v.freeHead, i - 1)]
      filled == [d \in Desc |->
                   IF \E i \in 1 .. n : ds[i] = d
                     THEN LET e == chain[CHOOSE i \in 1 .. n : ds[i] = d]
                          IN [v.descs[d] EXCEPT
                                !.addr = e.addr,
                                !.flags = {"NEXT"} \cup
                                          (IF e.writable THEN {"WRITE"} ELSE {})]
                     ELSE v.descs[d]]
  IN [v EXCEPT
        !.descs = [filled EXCEPT ![ds[n]].next = 0,
                                 ![ds[n]].flags = @ \ {"NEXT"}],
        !.numFree = @ - n,
        !.avail[v.availIdx % NumDescs] = v.freeHead,
        !.availIdx = (@ + 1) % IdxMod]

\* Fill the first Len(chain) free descriptors with the chain's entries,
\* end the chain, and append its head to the avail ring.
FillChain(v, chain) ==
  LET n == Len(chain)
      ds == [i \in 1 .. n |-> Walk(v.descs, v.freeHead, i - 1)]
      last == ds[n]
      filled == [d \in Desc |->
                   IF \E i \in 1 .. n : ds[i] = d
                     THEN LET e == chain[CHOOSE i \in 1 .. n : ds[i] = d]
                          IN [v.descs[d] EXCEPT
                                !.addr = e.addr,
                                !.flags = {"NEXT"} \cup
                                          (IF e.writable THEN {"WRITE"} ELSE {})]
                     ELSE v.descs[d]]
  IN [v EXCEPT
        !.descs = [filled EXCEPT ![last].next = 0,
                                 ![last].flags = @ \ {"NEXT"}],
        !.freeHead = v.descs[last].next,
        !.numFree = @ - n,
        !.avail[v.availIdx % NumDescs] = v.freeHead,
        !.availIdx = (@ + 1) % IdxMod]

\* virtq_push: reclaim when the free list is too short, then panic if it
\* still is ("run out of descriptors"), else fill the chain.
\* Variant: the reclaim loop dropped (used descriptors never freed).
PushNoReclaim(v, chain) == v
PushReclaimed(v, chain) == IF Len(chain) > v.numFree THEN Reclaim(v) ELSE v
ReclaimRunsAway(v, chain) ==
  Len(chain) > v.numFree /\ Reclaim(v).lastUsed /= used.idx
VirtqPushPanics(v, chain) == Len(chain) > PushReclaimed(v, chain).numFree
VirtqPush(v, chain) == FillChain(PushReclaimed(v, chain), chain)

\* virtq_notify: the write to VIRTIO_REG_QUEUE_NOTIFY kicks the device.
VirtqNotify(d) == [d EXCEPT !.kick = TRUE]

-----------------------------------------------------------------------------
(* Driver actions (disk_init, disk_read_sectors, disk_write_sectors).      *)

\* pci.c's read16 of PCI_CONFIG_VENDOR_ID (0x00) and PCI_CONFIG_DEVICE_ID
\* (0x02): the low and high halves of config dword 0, kept as the fields
\* vendor and device (the dword itself exceeds TLC's integers).
PciVendor(p) == PciBus[p].vendor
PciDevice(p) == PciBus[p].device

\* virtio_blk.c's pci_find callback: the legacy virtio-blk function.
PciFind(vendor, device) == vendor = 6900 /\ device = 4097   \* 0x1af4, 0x1001

\* pci_find_device: buses, then slots, in increasing order; absent
\* functions read vendor 0xffff.  The first function the callback accepts.
PciMatches ==
  {p \in DOMAIN PciBus :
     /\ PciVendor(p) /= 65535
     /\ PciFind(PciVendor(p), PciDevice(p))}
ScanPos(p) == p[1] * 32 + p[2]
PciFirst == CHOOSE p \in PciMatches : \A q \in PciMatches : ScanPos(p) <= ScanPos(q)

\* Variant: bus mastering not enabled.
FindDeviceNoBusMaster ==
  /\ pc = "find"
  /\ devStatus' = (0 | VIRTIO_STATUS_ACK) | VIRTIO_STATUS_DRIVER
  /\ pc' = "negotiate"
  /\ UNCHANGED <<vq, used, header, status, buf, reqs, dev, disk>>

\* virtio_legacy_find_device as called by disk_init: pci_find_device (none
\* found: disk_init PANICs), the ASSERT that BAR0 is I/O-mapped (port_base
\* = bar0 & ~3), pci_enable_bus_master (command |= 1 << 2), then reset,
\* ACK, DRIVER in the device status register.
FindDevice ==
  /\ pc = "find"
  /\ CASE PciMatches = {} ->
            pc' = "panic_nodev" /\ UNCHANGED <<devStatus, dev>>
       [] (PciBus[PciFirst].bar0 & 1) /= 1 ->
            pc' = "halt" /\ UNCHANGED <<devStatus, dev>>
       [] OTHER ->
            /\ dev' = [dev EXCEPT !.busMaster = TRUE]
            /\ devStatus' = (0 | VIRTIO_STATUS_ACK) | VIRTIO_STATUS_DRIVER
            /\ pc' = "negotiate"
  /\ UNCHANGED <<vq, used, header, status, buf, reqs, disk>>

\* negotiate_feature(0): no features; status |= VIRTIO_STATUS_FEAT_OK and
\* the ASSERT that a FEAT_OK bit reads back set.
NegotiateFeature ==
  LET s == devStatus | VIRTIO_STATUS_FEAT_OK
  IN /\ pc = "negotiate"
     /\ devStatus' = s
     /\ pc' = IF (s & VIRTIO_STATUS_FEAT_OK) /= 0 THEN "vqinit" ELSE "halt"
     /\ UNCHANGED <<vq, used, header, status, buf, reqs, dev, disk>>

\* page_alloc(n, true) as virtq_init calls it: the next n free pages,
\* memset to 0.  The used ring lives in them, so it starts at index 0.
UsedZero == [ring |-> [i \in Desc |-> 0], idx |-> 0]

\* The used ring's index word before virtq_init: whatever the free pages
\* held (page_alloc hands out memory it does not clear unless asked).
StaleUsedIdx == {0, 1}

\* Variant: the last descriptor's next not wrapped to 0.
VirtqInitNoWrap ==
  /\ pc = "vqinit"
  /\ vq' = [VqZero EXCEPT
              !.descs = [d \in Desc |-> [ZeroDesc EXCEPT !.next = d + 1]],
              !.numFree = NumDescs]
  /\ used' = UsedZero
  /\ pc' = "idle"
  /\ UNCHANGED <<devStatus, header, status, buf, reqs, dev, disk>>

\* Variant: the queue memory taken with page_alloc(n, false).
VirtqInitUnzeroed ==
  /\ pc = "vqinit"
  /\ vq' = [VqZero EXCEPT
              !.descs = [d \in Desc |->
                           [ZeroDesc EXCEPT !.next =
                              IF d + 1 = NumDescs THEN 0 ELSE d + 1]],
              !.numFree = NumDescs]
  /\ pc' = "idle"
  /\ UNCHANGED <<devStatus, used, header, status, buf, reqs, dev, disk>>

\* virtq_init(0) and the rest of disk_init: queue memory from page_alloc
\* zeroed (descriptors, avail and used ring), every descriptor on the free
\* list; disk_init never calls activate().
VirtqInit ==
  /\ pc = "vqinit"
  /\ vq' = [VqZero EXCEPT
              !.descs = [d \in Desc |->
                           [ZeroDesc EXCEPT !.next =
                              IF d + 1 = NumDescs THEN 0 ELSE d + 1]],
              !.numFree = NumDescs]
  /\ used' = UsedZero
  /\ pc' = "idle"
  /\ UNCHANGED <<devStatus, header, status, buf, reqs, dev, disk>>

\* The chain disk_read_sectors / disk_write_sectors build.
ReqChain(t) ==
  << [addr |-> "hdr", writable |-> FALSE],
     [addr |-> "data", writable |-> t = "IN"],
     [addr |-> "status", writable |-> TRUE] >>

\* Header and status on the stack, virtq_push, virtq_notify; the spin in
\* wait_for_completion follows as WaitForCompletion.
Submit(t, l) ==
  /\ pc = "idle"
  /\ reqs < MaxReqs
  /\ header' = [type |-> t, sector |-> l]
  /\ status' = IN_PROGRESS
  /\ CASE ReclaimRunsAway(vq, ReqChain(t)) ->
            /\ pc' = "reclaim_runaway"
            /\ UNCHANGED <<vq, dev, reqs>>
       [] VirtqPushPanics(vq, ReqChain(t)) ->
            /\ pc' = "panic_nodesc"
            /\ UNCHANGED <<vq, dev, reqs>>
       [] OTHER ->
            /\ vq' = VirtqPush(vq, ReqChain(t))
            /\ dev' = VirtqNotify(dev)
            /\ reqs' = reqs + 1
            /\ pc' = "poll"

DiskReadSectors(l) ==
  /\ Submit("IN", l)
  /\ UNCHANGED <<devStatus, used, buf, disk>>

DiskWriteSectors(l, v) ==
  /\ Submit("OUT", l)
  /\ buf' = v
  /\ UNCHANGED <<devStatus, used, disk>>

\* The spin ends once the status byte is no longer IN_PROGRESS_STATUS;
\* anything but VIRTIO_BLK_S_OK is a PANIC.
\* Variant: the status not checked after the spin.
WaitForCompletionUnchecked ==
  /\ pc = "poll"
  /\ IF status = IN_PROGRESS
       THEN UNCHANGED vars
       ELSE /\ pc' = "idle"
            /\ UNCHANGED <<devStatus, vq, used, header, status, buf, reqs, dev, disk>>

WaitForCompletion ==
  /\ pc = "poll"
  /\ IF status = IN_PROGRESS
       THEN UNCHANGED vars
       ELSE /\ pc' = IF status = S_OK THEN "idle" ELSE "panic_io"
            /\ UNCHANGED <<devStatus, vq, used, header, status, buf, reqs, dev, disk>>

\* main() reboots when it has no more requests to make.
Reboot ==
  /\ pc = "idle"
  /\ pc' = "done"
  /\ UNCHANGED <<devStatus, vq, used, header, status, buf, reqs, dev, disk>>

-----------------------------------------------------------------------------
(* The device (QEMU's legacy virtio-blk): environment, not driver code.    *)

\* The chain layout a virtio-blk request must have.
WellFormed(v, h, t) ==
  LET c == Chain(v, h)
  IN /\ Len(c) = 3
     /\ v.descs[c[1]].addr = "hdr" /\ "WRITE" \notin v.descs[c[1]].flags
     /\ v.descs[c[2]].addr = "data"
     /\ ("WRITE" \in v.descs[c[2]].flags) = (t = "IN")
     /\ v.descs[c[3]].addr = "status" /\ "WRITE" \in v.descs[c[3]].flags

\* After a kick the device pops the next avail entry and reads the header
\* it points to; a malformed chain breaks the device (virtio_error).  It
\* reaches the rings in memory only while bus mastering is enabled.
DevFetch ==
  LET h == vq.avail[dev.cursor % NumDescs]
      c == (dev.cursor + 1) % IdxMod
  IN /\ dev.kick /\ dev.busMaster
     /\ dev.phase = "idle"
     /\ dev.cursor /= vq.availIdx
     /\ dev' = [dev EXCEPT !.cursor = c, !.kick = (c /= vq.availIdx),
                           !.head = h, !.req = header,
                           !.phase = IF WellFormed(vq, h, header.type)
                                       THEN "busy" ELSE "broken"]
     /\ UNCHANGED <<pc, devStatus, vq, used, header, status, buf, reqs, disk>>

\* The device performs the request and stores the status byte.
DevComplete(st) ==
  /\ dev.phase = "busy"
  /\ IF st = S_OK /\ dev.req.type = "OUT"
       THEN disk' = [disk EXCEPT ![dev.req.sector] = buf]
       ELSE UNCHANGED disk
  /\ buf' = IF st = S_OK /\ dev.req.type = "IN" THEN disk[dev.req.sector]
                                                 ELSE buf
  /\ status' = st
  /\ dev' = [dev EXCEPT !.phase = "done"]
  /\ UNCHANGED <<pc, devStatus, vq, used, header, reqs>>

\* ... and only then publishes the chain in the used ring.
DevPublish ==
  /\ dev.phase = "done"
  /\ used' = [ring |-> [used.ring EXCEPT ![used.idx % NumDescs] = dev.head],
              idx |-> (used.idx + 1) % IdxMod]
  /\ dev' = [dev EXCEPT !.phase = "idle"]
  /\ UNCHANGED <<pc, devStatus, vq, header, status, buf, reqs, disk>>

-----------------------------------------------------------------------------

Init ==
  /\ pc = "find"
  /\ devStatus \in 0 .. 255
  /\ vq = VqZero
  /\ used \in {[UsedZero EXCEPT !.idx = i] : i \in StaleUsedIdx}
  /\ header = [type |-> "IN", sector |-> CHOOSE l \in Lbas : TRUE]
  /\ status = IN_PROGRESS
  /\ buf \in Vals
  /\ reqs = 0
  /\ dev = [cursor |-> 0, kick |-> FALSE, phase |-> "idle", head |-> 0,
            busMaster |-> FALSE, req |-> [type |-> "IN", sector |-> CHOOSE l \in Lbas : TRUE]]
  /\ disk \in [Lbas -> Vals]

\* The payload has halted (PANIC, ASSERT) or rebooted; nothing more runs.
Halted ==
  /\ pc \in {"done", "halt", "panic_nodev", "panic_nodesc", "panic_io",
             "reclaim_runaway"}
  /\ dev.phase \in {"idle", "broken"}
  /\ UNCHANGED vars

Driver ==
  \/ FindDevice \/ NegotiateFeature \/ VirtqInit
  \/ \E l \in Lbas : DiskReadSectors(l)
  \/ \E l \in Lbas, v \in Vals : DiskWriteSectors(l, v)
  \/ WaitForCompletion
  \/ Reboot

Device ==
  \/ DevFetch
  \/ \E st \in DevStatuses : DevComplete(st)
  \/ DevPublish

Next == Driver \/ Device \/ Halted

\* The CPU runs the driver without preemption, and the device, once
\* kicked, keeps serving the queue: both are weakly fair.
Fairness ==
  /\ WF_vars(WaitForCompletion)
  /\ WF_vars(DevFetch)
  /\ \A st \in DevStatuses : WF_vars(DevComplete(st))
  /\ WF_vars(DevPublish)

Spec == Init /\ [][Next]_vars /\ Fairness

-----------------------------------------------------------------------------
(* Properties.                                                             *)

Initialised == pc \notin {"find", "negotiate", "vqinit"}

TypeOK ==
  /\ pc \in {"find", "negotiate", "vqinit", "idle", "poll", "done", "halt",
             "panic_nodev", "panic_nodesc", "panic_io", "reclaim_runaway"}
  /\ devStatus \in 0 .. 255
  /\ vq \in [descs : [Desc -> DescRec], freeHead : Desc, numFree : 0 .. NumDescs,
             avail : [Desc -> Desc], availIdx : 0 .. IdxMod - 1,
             lastUsed : 0 .. MaxReqs]
  /\ used \in [ring : [Desc -> Desc], idx : 0 .. IdxMod - 1]
  /\ header \in [type : {"IN", "OUT"}, sector : Lbas]
  /\ status \in {IN_PROGRESS} \cup DevStatuses
  /\ buf \in Vals /\ disk \in [Lbas -> Vals]
  /\ reqs \in 0 .. MaxReqs
  /\ dev \in [cursor : 0 .. IdxMod - 1, kick : BOOLEAN,
              phase : {"idle", "busy", "done", "broken"}, head : Desc,
              busMaster : BOOLEAN,
              req : [type : {"IN", "OUT"}, sector : Lbas]]

\* The chains pushed and not yet reclaimed, oldest first: the avail entries
\* from last_used_index on (the device completes chains in avail order).
InFlightChains ==
  [k \in 1 .. reqs - vq.lastUsed |->
     Chain(vq, vq.avail[(vq.lastUsed + k - 1) % NumDescs])]

\* Free-list invariant of virtq_push's reclaim loop: once virtq_init has
\* run, the free list (num_free_descs links from free_head) and the chains
\* in flight together hold every descriptor exactly once, so
\* num_free_descs + the lengths of the chains in flight = NumDescs.
DescPartition ==
  Initialised =>
    LET all == FreeList(vq) \o FlattenSeq(InFlightChains)
    IN Len(all) = NumDescs /\ ToSet(all) = Desc

\* With one request outstanding at a time, virtq_push never runs out of
\* descriptors ("virtq_push: run out of descriptors" never fires): the
\* reclaim loop finds the completed chains in the used ring.
NoDescriptorExhaustion == pc /= "panic_nodesc"

\* virtq_push's reclaim loop ends where the device's used->index is: it
\* never runs past the chains the driver has pushed, however many requests
\* the payload makes (last_used_index against the wrapping used->index).
ReclaimEnds == pc /= "reclaim_runaway"

\* The descriptors the device owns: those of the chains in the avail ring
\* from used->index (returned so far) up to avail->index.
DeviceOwned ==
  UNION {ToSet(Chain(vq, vq.avail[(used.idx + k) % NumDescs])) :
           k \in 0 .. ((vq.availIdx - used.idx) % IdxMod) - 1}

\* virtq_push never rewrites a descriptor the device still owns: a chain
\* made available stays as the driver wrote it until the device returns
\* it in the used ring (virtio 2.6), even when wait_for_completion has
\* already seen its status byte and the next request reclaims.
DeviceDescsUntouched ==
  [][Initialised => \A d \in DeviceOwned : vq'.descs[d] = vq.descs[d]]_vars

\* No request is notified to the device before the driver has completed
\* the device initialisation of virtio 3.1.1: ACK, DRIVER, FEATURES_OK
\* and DRIVER_OK all set in the status register.
DriverReadyBeforeNotify ==
  LET ready == VIRTIO_STATUS_ACK + VIRTIO_STATUS_DRIVER
               + DEVICE_STATUS_FEATURES_OK + VIRTIO_STATUS_DRIVER_OK
  IN reqs > 0 => (devStatus & ready) = ready

\* Every disk_read_sectors / disk_write_sectors call that is spinning in
\* wait_for_completion eventually returns or panics on a device error.
RequestsComplete == pc = "poll" ~> pc \in {"idle", "panic_io"}

\* The driver implements the atomic block device of BlockDevice: each
\* request takes effect on the disk exactly once, while its caller spins,
\* and with the sector and data of that call.
AbsState ==
  CASE pc = "poll" /\ status = IN_PROGRESS -> "pending"
    [] pc = "poll" /\ status = S_OK -> "completed"
    [] pc \in {"poll", "panic_io"} -> "failed"
    [] OTHER -> "idle"

BD == INSTANCE BlockDevice
        WITH req <- [type |-> header.type, lba |-> header.sector],
             state <- AbsState

ImplementsBlockDevice == BD!Spec
=============================================================================
