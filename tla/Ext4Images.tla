----------------------------- MODULE Ext4Images -----------------------------
(* Disk images for the ext4 reader: a GPT with the Linux partition second *)
(* at LBA 2048, 1 KiB or 4 KiB blocks, two block groups of 16 or 8        *)
(* inodes, revision 0 (128-byte inodes) or 1 (256-byte inodes), the       *)
(* target file as inode 12 (group 0) or 20 (group 1 or 2) with one or two *)
(* leaf extents, short or long.  The root directory may hold, before the  *)
(* target, a file (inode 13) whose name has the target's as a prefix      *)
(* ("dump.1") or is a prefix of it ("dum").                               *)
EXTENDS Naturals, Sequences, TLC

CONSTANTS DescSizes, ExtentFlags

\* Names as bytes: "dump", "lost+found", "dump.1", "dum".
MCTarget == <<100, 117, 109, 112>>
LostFound == <<108, 111, 115, 116, 43, 102, 111, 117, 110, 100>>
Decoys == { <<>>, MCTarget \o <<46, 49>>, SubSeq(MCTarget, 1, 3) }

\* The root directory: lost+found, the decoy (if any), the target.
RootDir(decoy, ino) ==
  << [inode |-> 11, name |-> LostFound, entry_len |-> 20] >>
  \o (IF decoy = <<>> THEN <<>>
      ELSE << [inode |-> 13, name |-> decoy, entry_len |-> 16] >>)
  \o << [inode |-> ino, name |-> MCTarget, entry_len |-> 988] >>

Parts == << [type |-> "other", first_lba |-> 34],
            [type |-> "linux", first_lba |-> 2048],
            [type |-> "unused", first_lba |-> 0],
            [type |-> "unused", first_lba |-> 0] >>

Files == { <<[start |-> 100, count |-> 8]>>,
           <<[start |-> 100, count |-> 4], [start |-> 200, count |-> 4]>>,
           <<[start |-> 100, count |-> 64]>> }

MCImages ==
  { [gpt |-> [sig |-> "EFI PART", parts |-> Parts],
     sb |-> [magic |-> "EF53", log2_block_size |-> log,
             blocks_count |-> 2 * 8192, blocks_per_group |-> 8192,
             inodes_per_group |-> ipg, major_revision_level |-> rev,
             bytes_per_inode |-> 256],
     \* the descriptor table follows the block holding byte 1024
     descBlock |-> 1024 \div (1024 * 2^log) + 1,
     descSize |-> ds,
     inodeTable |-> <<5, 300, 600>>,
     inodes |-> (2 :> [extents |-> TRUE, depth |-> 0,
                       ext |-> <<[start |-> 50, count |-> 1]>>])
                @@ (13 :> [extents |-> TRUE, depth |-> 0,
                           ext |-> <<[start |-> 400, count |-> 8]>>])
                @@ (ino :> [extents |-> ef, depth |-> 0, ext |-> f]),
     root |-> RootDir(decoy, ino)] :
      log \in {0, 2}, ipg \in {8, 16}, rev \in {0, 1}, ds \in DescSizes,
      ino \in {12, 20}, ef \in ExtentFlags, f \in Files,
      decoy \in Decoys }
=============================================================================
