--------------------------- MODULE MC_VirtioBlk ---------------------------
(* Model-checking instance of VirtioBlk: two sectors, two contents.        *)
EXTENDS VirtioBlk, TLC

CONSTANTS l1, l2, v1, v2

MCLbas == {l1, l2}
MCVals == {v1, v2}
\* Bus 0 as QEMU's i440fx machine lays it out: host bridge (8086:1237),
\* ISA bridge (8086:7000), an empty slot, virtio-net (1af4:1000, I/O BAR)
\* and virtio-blk (1af4:1001, I/O BAR at 0xc040).
MCPciBus ==
  (<<0, 0>> :> [vendor |-> 32902, device |-> 4663, bar0 |-> 0])
  @@ (<<0, 1>> :> [vendor |-> 32902, device |-> 28672, bar0 |-> 0])
  @@ (<<0, 2>> :> [vendor |-> 65535, device |-> 65535, bar0 |-> 65535])
  @@ (<<0, 3>> :> [vendor |-> 6900, device |-> 4096, bar0 |-> 49153])
  @@ (<<0, 4>> :> [vendor |-> 6900, device |-> 4097, bar0 |-> 49217])
=============================================================================
