----------------------------- MODULE DumpWriter -----------------------------
(***************************************************************************)
(* disk_write_to_sector_list (drivers/virtio_blk.c): stream a dump of Len *)
(* bytes into the sectors of a sector list, in list order.  Sector data   *)
(* is abstracted to which dump bytes it holds: a write is recorded as     *)
(* [lba, n, off, len], n sectors at lba holding dump bytes off..off+len-1 *)
(* followed by zeros.  disk_write_sectors is the atomic write of          *)
(* BlockDevice (checked for the driver in VirtioBlk).                     *)
(***************************************************************************)
EXTENDS Naturals, Sequences, SequencesExt

CONSTANTS
  SectorLists,   \* sector lists the writer may be handed: Seq([lba, n])
  DumpLens       \* dump lengths in bytes

SECTOR_SIZE == 512

VARIABLES
  list,      \* the sector list
  dumpLen,   \* dump_len
  writes,    \* the disk_write_sectors calls made, in order
  wpc        \* "write", then "done" or "crashed"

wvars == <<list, dumpLen, writes, wpc>>

ListBytes(l) == FoldLeft(LAMBDA acc, e : acc + e.n * SECTOR_SIZE, 0, l)

\* Variant: `buf` not advanced past a full entry.
RECURSIVE WriteLoopNoAdvance(_, _, _, _)
WriteLoopNoAdvance(l, i, off, len) ==
  IF i > Len(l) THEN [ws |-> <<>>, crashed |-> FALSE]
  ELSE LET e == l[i]
           r == e.n * SECTOR_SIZE
       IN IF len < r
            THEN IF len > SECTOR_SIZE
                   THEN [ws |-> <<>>, crashed |-> TRUE]
                   ELSE [ws |-> <<[lba |-> e.lba, n |-> 1, off |-> off,
                                   len |-> len]>>,
                         crashed |-> FALSE]
            ELSE LET rest == WriteLoopNoAdvance(l, i + 1, off, len - r)
                 IN [rest EXCEPT !.ws = <<[lba |-> e.lba, n |-> e.n,
                                           off |-> off, len |-> r]>> \o @]

\* Variant: the tail length taken as len - R (operands swapped).
RECURSIVE WriteLoopSwappedTail(_, _, _, _)
WriteLoopSwappedTail(l, i, off, len) ==
  IF i > Len(l) THEN [ws |-> <<>>, crashed |-> FALSE]
  ELSE LET e == l[i]
           r == e.n * SECTOR_SIZE
       IN IF len < r
            THEN IF len > SECTOR_SIZE
                   THEN [ws |-> <<>>, crashed |-> TRUE]
                   ELSE [ws |-> <<[lba |-> e.lba, n |-> 1, off |-> off,
                                   len |-> len - r]>>,
                         crashed |-> FALSE]
            ELSE LET rest == WriteLoopSwappedTail(l, i + 1, off + r, len - r)
                 IN [rest EXCEPT !.ws = <<[lba |-> e.lba, n |-> e.n,
                                           off |-> off, len |-> r]>> \o @]

\* The loop of disk_write_to_sector_list from entry i on, with `off` bytes
\* of the dump already written and `len` left.  A short tail is copied
\* into the 512-byte scratch `tmp`; a tail longer than the scratch makes
\* memcpy run past it and memset(tmp + len, 0, SECTOR_SIZE - len) wrap
\* to a huge length: the payload faults ("crash") with no further write.
RECURSIVE WriteLoop(_, _, _, _)
WriteLoop(l, i, off, len) ==
  IF i > Len(l) THEN [ws |-> <<>>, crashed |-> FALSE]
  ELSE LET e == l[i]
           r == e.n * SECTOR_SIZE
       IN IF len < r
            THEN IF len > SECTOR_SIZE
                   THEN [ws |-> <<>>, crashed |-> TRUE]
                   ELSE [ws |-> <<[lba |-> e.lba, n |-> 1, off |-> off,
                                   len |-> len]>>,
                         crashed |-> FALSE]
            ELSE LET rest == WriteLoop(l, i + 1, off + r, len - r)
                 IN [rest EXCEPT !.ws = <<[lba |-> e.lba, n |-> e.n,
                                           off |-> off, len |-> r]>> \o @]

DiskWriteToSectorList ==
  LET res == WriteLoop(list, 1, 0, dumpLen)
  IN /\ wpc = "write"
     /\ writes' = res.ws
     /\ wpc' = IF res.crashed THEN "crashed" ELSE "done"
     /\ UNCHANGED <<list, dumpLen>>

\* The writer is handed only lists that cover the dump (the target file
\* is pre-allocated with room for it).
Init ==
  /\ list \in SectorLists
  /\ dumpLen \in {d \in DumpLens : d <= ListBytes(list)}
  /\ writes = <<>>
  /\ wpc = "write"

\* After the writer the payload reboots (or has faulted): it stops.
Stopped == wpc \in {"done", "crashed"} /\ UNCHANGED wvars

Next == DiskWriteToSectorList \/ Stopped

Spec == Init /\ [][Next]_wvars

-----------------------------------------------------------------------------
(* What a sector holds after the writes: the dump bytes of the last write *)
(* covering it, as [off, len] (len < 512: zero-padded), or Orig.          *)

Orig == [orig |-> TRUE]   \* what the sector held before the payload ran

SectorView(ws, s) ==
  LET cover == {k \in 1 .. Len(ws) : ws[k].lba <= s /\ s < ws[k].lba + ws[k].n}
  IN IF cover = {} THEN Orig
     ELSE LET w == ws[CHOOSE k \in cover : \A j \in cover : j <= k]
              o == (s - w.lba) * SECTOR_SIZE
          IN [off |-> w.off + o,
              len |-> IF w.len - o < SECTOR_SIZE THEN w.len - o ELSE SECTOR_SIZE]

\* The sectors of a list, flattened, in file byte order.
ListSectors(l) ==
  FlattenSeq([i \in 1 .. Len(l) |-> [k \in 1 .. l[i].n |-> l[i].lba + k - 1]])

\* The spec's round trip: the k-th sector of the list holds dump bytes
\* (k-1)*512 .. on, zero-padded after the dump ends; sectors past the dump
\* are not touched.
Expected(k, len) ==
  IF (k - 1) * SECTOR_SIZE < len
    THEN [off |-> (k - 1) * SECTOR_SIZE,
          len |-> IF len - (k - 1) * SECTOR_SIZE < SECTOR_SIZE
                    THEN len - (k - 1) * SECTOR_SIZE ELSE SECTOR_SIZE]
    ELSE Orig

-----------------------------------------------------------------------------
(* Properties.                                                             *)

TypeOK ==
  /\ list \in SectorLists
  /\ dumpLen \in DumpLens
  /\ writes \in Seq([lba : Nat, n : Nat, off : Nat, len : Nat])
  /\ wpc \in {"write", "done", "crashed"}

\* disk_write_to_sector_list follows the list: its k-th write goes to the
\* k-th entry, carries the dump bytes that follow those of write k-1, and
\* never reads past the end of the dump buffer.
WritesFollowList ==
  \A k \in 1 .. Len(writes) :
    /\ k <= Len(list)
    /\ writes[k].lba = list[k].lba
    /\ writes[k].off = IF k = 1 THEN 0 ELSE writes[k-1].off + writes[k-1].len
    /\ writes[k].off + writes[k].len <= dumpLen

\* Once the writer has run, every dump byte is in its sector of the list
\* (the last one zero-padded): the dump round-trips.
DumpFullyWritten ==
  wpc /= "write" =>
    \A k \in 1 .. Len(ListSectors(list)) :
      Expected(k, dumpLen) /= Orig =>
        SectorView(writes, ListSectors(list)[k]) = Expected(k, dumpLen)
=============================================================================
