# TLA+ models of boot2dump

boot2dump is a small x86-64 payload that the crashing kernel boots. It finds
a pre-allocated file on an ext4 partition of a virtio-blk disk, writes the
kernel's dump into the sectors of that file and reboots. This directory holds
TLA+ modules for its parts, TLC configurations that check them, and
`PROJECT.json`. `PROJECT.json` lists the components, the runs, the mutants,
the source lines each definition models, the findings and the hazards.

All source paths below are relative to `src/boot2dump/src/`.

## The system and how its parts interact

`main.c` drives everything on one CPU with interrupts masked:

1. `disk_init` (`drivers/virtio_blk.c`) finds the virtio-blk PCI function and
   runs the legacy virtio initialisation of `drivers/virtio_legacy.c`. That
   means the status bits, feature negotiation and `virtq_init` of queue 0.
2. `fs_init` (`fs/ext4.c`) reads the GPT, picks the Linux partition and
   reads the superblock geometry.
3. `fs_read` looks the target name up in the root directory and reads its
   inode. It walks the inode's extents, appending one `sector_list_entry` per
   block to an intrusive list (`list.h`). The entries are allocated with
   `malloc` (`malloc.c`).
4. `disk_write_to_sector_list` streams the dump into the sectors of that
   list. Each call to `disk_write_sectors` pushes a three-descriptor chain
   (header, data, status), notifies the device and spins on the status byte.
5. The payload reboots.

The virtio device is the only other actor. It runs concurrently with the CPU,
takes chains from the avail ring, performs them and stores the status byte.
Only then does it publish the chain in the used ring (QEMU's order).

## Modules

| Module | Models | State | Actions |
|---|---|---|---|
| `VirtioBlk` | the PCI probe of `pci.c` and `disk_init`; the zeroing `page_alloc` does for `virtq_init`; `drivers/virtio_blk.c` requests over `drivers/virtio_legacy.c` (`virtq_init`, `virtq_push` with its reclaim loop, `virtq_notify`, `negotiate_feature`), and the device | `pc`, status register, virtqueue (descriptors, free list, avail ring, `last_used_index`), used ring, the request header and status byte, the caller's buffer, the device (with its bus-master bit) and the disk; the bus contents are the constant `PciBus` | `FindDevice`, `NegotiateFeature`, `VirtqInit`, `DiskReadSectors`, `DiskWriteSectors`, `WaitForCompletion`, `Reboot`; device steps `DevFetch`, `DevComplete`, `DevPublish` |
| `BlockDevice` | what `disk.h` promises: one request at a time, performed atomically and exactly once | `disk`, `buf`, `req`, `state` | `Submit`, `Perform`, `Return` |
| `DumpWriter` | `disk_write_to_sector_list`, with the recursive `WriteLoop` for its loop over the list and the `tmp[512]` tail | the list, `dump_len`, the writes made, `wpc` | `DiskWriteToSectorList` (the whole call), `Stopped` |
| `Ext4` | `fs_init` and `fs_read` of `fs/ext4.c`: GPT entry, geometry, group descriptor and inode location, extent walk, dirent walk with `strcmp` of `string.c` | the image (fields the code reads), the `fs` statics, `fpc`, the sector list, the return value | `FsInit`, `FsRead`, `FsStopped` |
| `Ext4Images` | the images TLC enumerates (not code) | | |
| `Boot2Dump` | `main()`: composes `Ext4` and `DumpWriter` by `INSTANCE` | the two modules' variables | `FsInit`, `FsRead`, `WriteDump`, `Stopped` |
| `Malloc` | `malloc.c`/`malloc.h`: `malloc_init`, `malloc` (bin hit, split, whole take, out of memory), `free`, `realloc`, `check_buffer_overflow` | chunk headers keyed by address, the 16 bins, what the caller holds, an op count, `hpc` | `Malloc`, `Free`, `Realloc`, `Done` |
| `IntrusiveList` | `list.h`: `list_init`, `list_push_back`, `list_pop_front`, `list_remove` and the readers | `prev`/`next` of the head and of each element, `halted` | `ListPushBack`, `ListPopFront`, `ListRemove`, `ListRemoveNull`, `Stop` |
| `SeqList` | the abstract list: a sequence without duplicates | `seq`, `halted` | the same three operations |

`FindDevice` models `disk_init`'s probe: `pci_find_device` scans bus 0 slot
by slot (function 0 only), skips slots whose vendor reads `0xffff` and takes
the first whose vendor and device are `0x1af4`/`0x1001`. It panics when there
is none, halts when BAR0 is not an I/O BAR, and otherwise enables bus
mastering before the ACK and DRIVER bits. TLC cannot hold `0xffffffff`, so a
configuration dword is kept as its two 16-bit halves. The device can only
fetch from the rings once bus mastering is on (as in QEMU). `MC_VirtioBlk`
fills `PciBus` the way QEMU's i440fx machine lays out bus 0: host bridge,
ISA bridge, an empty slot, a virtio-net function, then the virtio-blk one.

Each action models a whole C function, early returns and panics included. A
`PANIC` or failed `ASSERT` becomes a halt state named after it, such as
`panic_nodesc`, `panic_io`, "out of memory", "overflow" or "crashed". Data is
abstracted to what the properties need:

- sector contents are model values;
- dirent names and the path are short byte sequences. The lookup compares
  them with `Strcmp`, a translation of `string.c`'s `strcmp`, after the
  copy into `name[256]` and its NUL (`NameBuf`) and main's NUL-terminated
  `path` (`Path`);
- redzone bytes become "the caller wrote past capacity";
- a dump write is recorded as `[lba, n, off, len]`, meaning n sectors at lba
  holding dump bytes off..off+len-1, zero-padded.

Numeric details are kept where the code gets them wrong or where they matter:

- the status constants (`VIRTIO_STATUS_FEAT_OK == 82`);
- ring indices modulo `2^IdxWidth`;
- the 48-byte chunk header and 64-byte frame;
- `ALIGN_UP(size, 16)`;
- the power-of-two bins;
- the descriptor block, 2 for 1 KiB blocks and 1 otherwise (`ext4.c:69`), and the 32-byte group descriptor stride;
- the 512-byte tail buffer.

`PROJECT.json` `map` names the lines of every definition.

## Runs

| Run | Cfg | Expect | What it shows |
|---|---|---|---|
| `vq_n8` | `VirtioBlk_N8.cfg` | pass (25,680 states) | With 8 descriptors and 7 requests (reclaim needed from the third), `DescPartition` holds: the free list and the chains in flight hold every descriptor exactly once. `NoDescriptorExhaustion`, `RequestsComplete` (liveness) and `ImplementsBlockDevice` (refinement of `BlockDevice` via `AbsState`) also hold. So does the action property `DeviceDescsUntouched`: no step rewrites a descriptor of a chain between `used->index` and `avail->index`, the chains the device has not returned, even though `wait_for_completion` returns before the device publishes. Its mutant is `virtq_push` not moving `free_head` past the descriptors it took. The probe finds the virtio-blk function behind the virtio-net one. |
| `vq_wrap` | `VirtioBlk_Wrap.cfg` | violation | `last_used_index` is an `int` that is never wrapped, while `used->index` is a `uint16_t`. With the index width cut to 3 bits, after 8 requests `used->index` is back at 0 while `last_used_index` is 8. The reclaim loop then runs past every chain pushed (`ReclaimEnds`). At 16 bits this needs 65536 requests; the payload makes about 100, so the bug is latent. |
| `vq_init_handshake` | `VirtioBlk_Init.cfg` | violation | FEATURES_OK and DRIVER_OK are never set before the first notify (`FEAT_OK == 82`, `activate()` never called). |
| `writer_follow` | `DumpWriter_Follow.cfg` | pass (130) | The k-th write goes to the k-th list entry and carries the next dump bytes. It never reads past the dump. |
| `writer_round_trip` | `DumpWriter_RoundTrip.cfg` | violation | A tail longer than 512 bytes (multi-sector entries) overruns `tmp`. The dump tail is never written. |
| `ext4_inode` | `Ext4_Inode.cfg` | pass (432) | With 32-byte descriptors, every inode is read from its real slot (`InodeLocated`). Each image records where its descriptor table really is (the block after the one holding byte 1024), and a read of any other block finds no descriptors; the mutant is `group_desc_offset` always 1. This covers both block sizes, both revisions and inodes in groups 0 to 2. `ListStartsAtTarget` also holds: when `fs_read` returns, its sector list starts with the sectors of the first extent of the file named exactly as the path. The root directory may list, before the target `dump`, a file `dump.1` or `dum`, so `strcmp` must tell prefixes apart. The mutant is a `strcmp` that stops at the end of either string. |
| `ext4_desc64` | `Ext4_Desc64.cfg` | violation | With the 64bit feature the 32-byte stride reads the wrong inode table for every group but 0: an even group k gets the table of group k/2, an odd group the high half of a descriptor. |
| `malloc_heap` | `Malloc_Heap.cfg` | pass (7,905) | Over every sequence of 7 `malloc`/`free`/`realloc` calls on a 352-byte heap with 8 bins, `HeapTiled` holds: the chunks tile the heap exactly. `FreeListsExact` also holds: every free chunk is in exactly one bin, and the in-use chunks are the ones the caller holds. Its mutant is `malloc` leaving `next` set on a chunk taken from a bin (`malloc.c:103`), which `free` then keeps when it files the chunk in an empty bin. |
| `malloc_fits` | `Malloc_AllocatedFits.cfg` | violation | The sequence is: malloc(48) splits; malloc(16) takes an 80-byte chunk whole; free files it in the 128-byte bin; malloc(100) receives it. |
| `list` | `IntrusiveList.cfg` | pass (129) | Any sequence of push_back, pop_front and remove over 4 elements keeps one consistent doubly linked ring through the head (`DoublyLinked`). It also implements `SeqList` under the mapping "walk `next` from the head" (`ImplementsSeqList`). |
| `b2d_foreign` | `Boot2Dump_Foreign.cfg` | violation | `ext4_read_inode_extent` never decrements `remaining` (`ext4.c:103`), so the sector list runs past a short first extent. A dump that fills its file ends on an entry boundary, and the writer's zero sector then lands in a block the file does not own. |
| `b2d_truncation` | `Boot2Dump_Truncation.cfg` | violation | `main()` gives `fs_read` a 64 KiB buffer, so the sector list covers at most 64 KiB of the file. A 70,000-byte dump into a larger file is cut at 64 KiB and the payload still reports success (`DumpPersisted`). |

The violation runs each check one property and are recorded as findings in
`PROJECT.json`. Every property of a passing run has a mutant in `PROJECT.json`.
A mutant is a plausible bug in the mapped definition, defined just before that
definition in its module, and TLC finds the property violated when the mutant
is substituted. Examples: the reclaim loop not relinking a descriptor,
`strcmp` reporting a prefix as equal, `disk_init` not enabling bus mastering (the device never fetches, so
`RequestsComplete` fails), free not popping the bin, list_insert not setting
the back link.

## Bounds and why they are enough

- **VirtioBlk.** The queue has 8 descriptors. The third request already
  depends on reclaim, and 7 requests cycle every descriptor through the free
  list more than once. There are two sectors and two contents, enough to tell
  a read from a write and one sector from another. The device may answer
  `S_OK` or `S_IOERR`. `vq_n8` and `vq_init_handshake` use the real
  `IdxWidth = 16`, so their indices never wrap. Before `virtq_init` the used
  ring's index holds whatever the free pages held (0 or 1, `StaleUsedIdx`);
  `virtq_init` takes the queue memory from `page_alloc(n, true)`, which
  zeroes it (`UsedZero`). With the zeroing removed (`VirtqInitUnzeroed`),
  TLC finds `DescPartition` violated: the first reclaim frees a chain the
  device never returned. `vq_wrap` uses
  `IdxWidth = 3` and 11 requests, so the indices wrap once; the module only
  assumes that `2^IdxWidth` is a multiple of the queue size, as for legacy
  queues. The PCI bus has five slots, which covers a non-matching vendor, an
  empty slot and a virtio function of the wrong device type before the match.
- **DumpWriter.** The lists have 1 to 3 entries of 1, 2 or 8 sectors, as
  `ext4_read_block` builds for 512 B, 1 KiB and 4 KiB blocks. The dump
  lengths sit on and around the sector and block boundaries (0, 28, 512, 700,
  ..., 12288), and the case analysis of the loop depends on nothing else.
- **Ext4.** The images vary:
  - the block size (1 KiB or 4 KiB);
  - inodes per group (8 or 16);
  - the revision (128- or 256-byte inodes);
  - the descriptor size;
  - the target inode (12 or 20, so groups 0 to 2);
  - the extent layout: one short, two, or one longer than the 64 KiB buffer;
  - the root directory: the target alone, or after a file whose name has
    the target's as a prefix or is a prefix of it.
- **Boot2Dump.** `b2d_truncation` uses one dump of 70,000 bytes, just over
  the 64 KiB buffer, into a file with room for it.
- **Malloc.** `malloc_heap` has 8 bins, so the largest fixed bin is 64
  bytes and a 100-byte request (112 aligned) goes to the last, dynamically
  sized list: `get_bin_idx_from_size` returns -1 and `free` files the chunk
  in the last list (`malloc.c:166`). The heap is 352 bytes, enough for a
  freed 112-byte chunk to sit in the last list ahead of the rest of the
  heap; a later split leaves it too small, so the next 100-byte request
  walks past it and unlinks through `prev` (`malloc.c:119-121`). The sizes
  16, 48, 64 and 100 hit the bin path, the split path and the whole take.
  Seven calls reach a chunk that is taken from a bin, freed into an empty
  bin and then re-used, the sequence in which a stale `next` would show.
  `malloc_fits` keeps the payload's 16 bins on a 272-byte heap with five
  calls, where its counterexample needs the 128-byte bin.
- **IntrusiveList.** Four elements give every position (first, middle, last,
  only) for each operation.

## Fairness

Only `VirtioBlk` has a liveness property. The CPU runs the driver alone with
interrupts masked, so the spin in `wait_for_completion` is weakly fair. Once
notified, the device keeps serving its queue, so `DevFetch`, `DevComplete` and
`DevPublish` are weakly fair. Nothing else is assumed. The callers that issue
requests are not fair: a driver may stay idle.

## Not modelled

- **PCI configuration access itself** (the `outl`/`inl` pair of `pci.c`).
  The bus is a constant; only functions 0 are scanned, as in the code.
- **The page allocator's bump pointer** (`page_alloc.c`). Only its zeroing
  is modelled (in `VirtioBlk`). The out-of-memory panic depends on the size
  of the free-page region, which the linker script sets, and the linker
  script is not among the sources.
- **printf, the console, UBSan and the x64 bring-up.** These are pure I/O
  with no state the payload reads back.
- **String primitives other than `strcmp`.** `strncmp` of the GPT signature
  and `memcmp` of the partition type GUID compare fixed-length fields; they
  are abstracted to equality of model values. `memcmp` reads one byte past
  equal GUIDs (a hazard in `PROJECT.json`). Memory is not modelled byte by
  byte, so that read is not modelled.
- **`virtq_pop`.** It is in the ops table, but the block driver never calls
  it.
- **The bytes `realloc` copies**, and the stale `size` after an in-place
  `realloc` (a hazard in `PROJECT.json`).
- **`list_push_front`.** It has no callers; it inserts after the first
  element.
- **Ext4 indirect-block inodes** (read as empty, a hazard) **and extent
  trees deeper than 0.** `fs_read` halts on those.

## Plan for later work

- deleted and garbage dirents in `DirentWalk`;
- a passing end-to-end property of `Boot2Dump` on images without the extent
  overrun;
- composing `VirtioBlk` under `Boot2Dump` instead of the atomic writes;
- composing `Malloc` with the sector-list allocation of `Ext4`;
- `realloc` contents;
- group descriptors beyond the first block (`ext4.c:76`).
