----------------------------- MODULE Boot2Dump -----------------------------
(***************************************************************************)
(* main() of main.c: fs_init, fs_read of the target file with a 64 KiB    *)
(* staging buffer (for its sector list), disk_write_to_sector_list of the *)
(* dump into that list, reboot.  Composes the ext4 reader (Ext4) and the  *)
(* dump writer (DumpWriter); disk_init and the driver below them are      *)
(* VirtioBlk, whose requests BlockDevice shows to be atomic.              *)
(***************************************************************************)
EXTENDS Naturals, Sequences, SequencesExt

CONSTANTS Images, Target, FsBufLen, DumpLens

VARIABLES
  image, fs, fpc, sectorList, readLen,   \* the ext4 reader (Ext4)
  dumpLen, writes, wpc                   \* the dump writer (DumpWriter)

vars == <<image, fs, fpc, sectorList, readLen, dumpLen, writes, wpc>>

E == INSTANCE Ext4
W == INSTANCE DumpWriter WITH list <- sectorList, SectorLists <- Seq([lba : Nat, n : Nat])

\* Bytes the target file's extents reserve on the disk.
FileBytes(img) ==
  Len(E!FileBlocks(img.inodes[E!TargetIno(img)]))
  * E!Geometry(img, 0).bytes_per_block

\* The kernel hands over a dump the pre-allocated file has room for.
Init ==
  /\ E!Init
  /\ dumpLen \in {d \in DumpLens : d <= FileBytes(image)}
  /\ writes = <<>>
  /\ wpc = "write"

FsInit == E!FsInit /\ UNCHANGED <<dumpLen, writes, wpc>>

FsRead == E!FsRead /\ UNCHANGED <<dumpLen, writes, wpc>>

\* disk_write_to_sector_list(&sectors_list, dump, dump_len), then reboot.
WriteDump ==
  /\ fpc = "read"
  /\ W!DiskWriteToSectorList
  /\ UNCHANGED <<image, fs, fpc, readLen>>

\* The payload has rebooted, or halted in the reader or the writer.
Stopped ==
  /\ fpc \notin {"init", "ready"}
  /\ fpc = "read" => wpc /= "write"
  /\ UNCHANGED vars

Next == FsInit \/ FsRead \/ WriteDump \/ Stopped

Spec == Init /\ [][Next]_vars

-----------------------------------------------------------------------------

\* The payload writes file data only: every sector it writes belongs to a
\* block of the target file's extents; no other file, and no metadata, of
\* the partition is overwritten.
NoForeignWrite ==
  LET fb == ToSet(E!FileBlocks(image.inodes[E!TargetIno(image)]))
  IN \A k \in 1 .. Len(writes) :
       \A s \in writes[k].lba .. writes[k].lba + writes[k].n - 1 :
         (s - fs.part_lba) \div fs.sectors_per_block \in fb

\* The whole dump is persisted: when the kernel hands over a dump the
\* target file has room for and disk_write_to_sector_list returns, its
\* writes carry every one of the dump_len bytes (spec 4.3: write L bytes
\* into the sectors of the list), whatever the size of fs_read's buffer.
DumpPersisted ==
  wpc = "done" => FoldLeft(LAMBDA acc, w : acc + w.len, 0, writes) = dumpLen
=============================================================================
