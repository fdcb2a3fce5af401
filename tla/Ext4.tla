-------------------------------- MODULE Ext4 --------------------------------
(***************************************************************************)
(* The read-only ext4 reader of fs/ext4.c: fs_init (GPT lookup of the     *)
(* Linux partition, superblock geometry) and fs_read (root directory      *)
(* lookup, inode read, extent walk producing the sector list).            *)
(*                                                                         *)
(* The disk image is abstracted to the fields the code reads: the GPT     *)
(* header signature and its first four entries, the superblock fields,    *)
(* the size of a group descriptor on disk, each group's inode table, the  *)
(* inodes (EXTENTS flag, extent depth, leaf extents) and the root         *)
(* directory's dirents.  The image never changes: the payload does not    *)
(* write metadata.  Names are byte sequences: the lookup compares them    *)
(* with strcmp, so a name that is a prefix of another is told apart.      *)
(***************************************************************************)
EXTENDS Naturals, Sequences, SequencesExt

CONSTANTS
  Images,       \* disk images the payload may find
  Target,       \* the path main() is given: path_len bytes, unterminated
  FsBufLen      \* capacity main() passes to fs_read (64 KiB)

SECTOR_SIZE == 512
INODE_ROOT_DIR == 2
GROUP_DESC_SIZE == 32          \* sizeof(struct ext4_group_desc)
\* ALIGN_UP(sizeof(struct ext4_dirent) * NUM_ROOT_DIRENTS_MAX, PAGE_SIZE)
DIRENTS_LEN == 4096

\* What the code gets when it reads an inode slot no inode of the image
\* occupies: no EXTENTS flag, so ext4_read_inode_data reads nothing.
NoInode == [extents |-> FALSE, depth |-> 0, ext |-> <<>>]

VARIABLES
  image,       \* the disk image
  fs,          \* the statics fs_init sets: part_lba, bytes_per_block, ...
  fpc,         \* "init", "ready", "read" or the reason the payload halted
  sectorList,  \* the sector list fs_read appends to (Seq([lba, n]))
  readLen      \* what fs_read returns

fvars == <<image, fs, fpc, sectorList, readLen>>

-----------------------------------------------------------------------------
(* fs_init                                                                 *)

\* locate_linux_partition: index of the first of the four GPT entries
\* with the Linux file-system type GUID, or 0.
LinuxEntry(img) ==
  IF \E i \in 1 .. 4 : img.gpt.parts[i].type = "linux"
    THEN CHOOSE i \in 1 .. 4 : img.gpt.parts[i].type = "linux"
              /\ \A j \in 1 .. i - 1 : img.gpt.parts[j].type /= "linux"
    ELSE 0

\* Variant: 1024 * log2_block_size for 1024 << log2_block_size.
GeometryMulShift(img, partLba) ==
  LET sb == img.sb
      bpb == 1024 * sb.log2_block_size
  IN [part_lba |-> partLba, bytes_per_block |-> bpb,
      sectors_per_block |-> bpb \div SECTOR_SIZE,
      groups_count |-> 1 + (sb.blocks_count - 1) \div sb.blocks_per_group,
      inodes_per_group |-> sb.inodes_per_group,
      bytes_per_inode |-> IF sb.major_revision_level < 1 THEN 128
                          ELSE sb.bytes_per_inode]

\* The geometry fs_init derives from the superblock.
Geometry(img, partLba) ==
  LET sb == img.sb
      bpb == 1024 * 2^sb.log2_block_size
  IN [part_lba |-> partLba,
      bytes_per_block |-> bpb,
      sectors_per_block |-> bpb \div SECTOR_SIZE,
      groups_count |-> 1 + (sb.blocks_count - 1) \div sb.blocks_per_group,
      inodes_per_group |-> sb.inodes_per_group,
      bytes_per_inode |-> IF sb.major_revision_level < 1 THEN 128
                          ELSE sb.bytes_per_inode]

FsInit ==
  LET i == LinuxEntry(image)
  IN /\ fpc = "init"
     /\ CASE image.gpt.sig /= "EFI PART" -> fpc' = "panic_nogpt" /\ UNCHANGED fs
          [] i = 0 -> fpc' = "panic_nopart" /\ UNCHANGED fs
          [] image.sb.magic /= "EF53" -> fpc' = "panic_magic" /\ UNCHANGED fs
          [] OTHER -> /\ fs' = Geometry(image, image.gpt.parts[i].first_lba)
                      /\ fpc' = "ready"
     /\ UNCHANGED <<image, sectorList, readLen>>

-----------------------------------------------------------------------------
(* Inodes                                                                  *)

\* ext4_read_group_desc_for_inode: the group descriptor block, the slot
\* descs[group_index] of 32 bytes, and its inode_table field.  A block
\* other than the image's descriptor block holds no descriptors (reads 0).  On an image
\* with 64-byte descriptors (the 64bit feature) slot k is the first half
\* of descriptor k/2 (k even) or the second half of descriptor (k-1)/2,
\* whose inode_table offset holds bg_inode_table_hi, 0 (k odd).
\* Variant: the descriptor table always taken from block 1.
GroupDescOffsetAlways1(g) == 1

\* group_desc_offset: the block after the one holding the superblock.
GroupDescOffset(g) == IF g.bytes_per_block > 1024 THEN 1 ELSE 2
GroupIndex(g, ino) == (ino - 1) \div g.inodes_per_group
GroupDescFits(g, ino) == GROUP_DESC_SIZE * GroupIndex(g, ino) < g.bytes_per_block
GroupDescInodeTable(img, g, ino) ==
  LET k == GroupIndex(g, ino)
  IN IF GroupDescOffset(g) /= img.descBlock THEN 0
     ELSE IF img.descSize = GROUP_DESC_SIZE THEN img.inodeTable[k + 1]
     ELSE IF k % 2 = 0 THEN img.inodeTable[k \div 2 + 1] ELSE 0

\* ext4_read_inode: where it reads inode ino from: [block, off].
InodeLoc(img, g, ino) ==
  LET index_in_group == (ino - 1) % g.inodes_per_group
      inodes_per_block == g.bytes_per_block \div g.bytes_per_inode
  IN [block |-> GroupDescInodeTable(img, g, ino)
                + index_in_group \div inodes_per_block,
      off |-> (index_in_group % inodes_per_block) * g.bytes_per_inode]

\* Where inode j is on the disk: byte (j-1) mod inodes_per_group times the
\* inode size into its group's inode table (the ext4 disk layout).
TrueInodeLoc(img, g, j) ==
  LET b == img.inodeTable[(j - 1) \div g.inodes_per_group + 1] * g.bytes_per_block
           + ((j - 1) % g.inodes_per_group) * g.bytes_per_inode
  IN [block |-> b \div g.bytes_per_block, off |-> b % g.bytes_per_block]

\* The inode found at the slot ext4_read_inode reads.
InodeRead(img, g, ino) ==
  LET loc == InodeLoc(img, g, ino)
      js == {j \in DOMAIN img.inodes : TrueInodeLoc(img, g, j) = loc}
  IN IF js = {} THEN NoInode ELSE img.inodes[CHOOSE j \in js : TRUE]

-----------------------------------------------------------------------------
(* Extents                                                                 *)

\* ext4_read_inode_extent: reads whole blocks from the extent's start
\* while `len` holds a block; `remaining` (blocks_count) is never
\* decremented, so the loop does not stop at the end of the extent.  Each
\* block read with a list appends [lba, sectors_per_block] to it.
RECURSIVE ReadExtent(_, _, _, _)
ReadExtent(g, block, remaining, acc) ==
  IF acc.len >= g.bytes_per_block /\ remaining > 0
    THEN ReadExtent(g, block + 1, remaining,
           [len |-> acc.len - g.bytes_per_block,
            readLen |-> acc.readLen + g.bytes_per_block,
            list |-> Append(acc.list,
                            [lba |-> g.part_lba + block * g.sectors_per_block,
                             n |-> g.sectors_per_block])])
    ELSE acc

\* ext4_read_inode_data over a read inode: leaf extents in order; an
\* inode without the EXTENTS flag reads nothing.
ReadInodeData(g, inode, len) ==
  LET step(acc, e) == ReadExtent(g, e.start, e.count, acc)
      start == [len |-> len, readLen |-> 0, list |-> <<>>]
  IN IF inode.extents THEN FoldLeft(step, start, inode.ext) ELSE start

\* main(): memcpy(path, path_unterminated, path_len); path[path_len] = 0.
Path == Target \o <<0>>

\* ext4_get_inode_by_filename copies a dirent's name_len name bytes into
\* name[256] and terminates it (name_len is a uint8_t: it fits).
NameBuf(d) == d.name \o <<0>>

\* strcmp over NUL-terminated strings: advance while the bytes agree and
\* neither is NUL, then return *s1 - *s2 of the (signed, x86-64) chars.
SChar(b) == IF b >= 128 THEN b - 256 ELSE b
RECURSIVE StrcmpFrom(_, _, _)
StrcmpFrom(s1, s2, i) ==
  IF s1[i] = s2[i] /\ s1[i] /= 0 /\ s2[i] /= 0 THEN StrcmpFrom(s1, s2, i + 1)
  ELSE SChar(s1[i]) - SChar(s2[i])

\* Variant: the loop stops at the end of either string and reports equal.
StrcmpPrefix(s1, s2) ==
  LET RECURSIVE P(_)
      P(i) == IF s1[i] = 0 \/ s2[i] = 0 THEN 0
              ELSE IF s1[i] /= s2[i] THEN SChar(s1[i]) - SChar(s2[i])
              ELSE P(i + 1)
  IN P(1)

Strcmp(s1, s2) == StrcmpFrom(s1, s2, 1)

\* ext4_get_inode_by_filename: walk the dirents read from the root
\* directory, advancing by entry_len while off < read_len; the first whose
\* name matches gives its inode field (0 in a deleted entry), -2 means no
\* match ("not found"), -1 a zero entry_len (the DEBUG_ASSERT).
RECURSIVE DirentWalk(_, _, _, _)
DirentWalk(ds, i, off, readLimit) ==
  IF off >= readLimit \/ i > Len(ds) THEN -2
  ELSE IF ds[i].entry_len = 0 THEN -1
  ELSE IF Strcmp(NameBuf(ds[i]), Path) = 0 THEN ds[i].inode
  ELSE DirentWalk(ds, i + 1, off + ds[i].entry_len, readLimit)

-----------------------------------------------------------------------------
(* fs_read                                                                 *)

\* An inode read by ext4_read_inode_data halts the payload when its group
\* descriptor lies past the first descriptor block, or when its extent
\* tree is not a leaf (depth /= 0).
InodeHalts(img, g, ino) ==
  \/ ~GroupDescFits(g, ino)
  \/ (InodeRead(img, g, ino).extents /\ InodeRead(img, g, ino).depth /= 0)

FsRead ==
  LET g == fs
      root == InodeRead(image, g, INODE_ROOT_DIR)
      dirLen == ReadInodeData(g, root, DIRENTS_LEN).readLen
      ino == DirentWalk(image.root, 1, 0, dirLen)
      res == ReadInodeData(g, InodeRead(image, g, ino), FsBufLen)
  IN /\ fpc = "ready"
     /\ CASE InodeHalts(image, g, INODE_ROOT_DIR) -> fpc' = "assert"
          [] ino = -1 -> fpc' = "assert"
          [] ino = -2 -> fpc' = "panic_notfound"
          [] ino < 2 \/ InodeHalts(image, g, ino) -> fpc' = "assert"
          [] OTHER -> /\ fpc' = "read"
                      /\ sectorList' = res.list
                      /\ readLen' = res.readLen
     /\ UNCHANGED <<image, fs>>
     /\ fpc' /= "read" => UNCHANGED <<sectorList, readLen>>

Init ==
  /\ image \in Images
  /\ fs = Geometry(image, 0)
  /\ fpc = "init"
  /\ sectorList = <<>>
  /\ readLen = 0

\* fs_read is the last call of the reader; afterwards it stops.
FsStopped == fpc \notin {"init", "ready"} /\ UNCHANGED fvars

Next == FsInit \/ FsRead \/ FsStopped

Spec == Init /\ [][Next]_fvars

-----------------------------------------------------------------------------
(* Properties.                                                             *)

\* The target file as the disk defines it: the live root dirent that names
\* it, and that inode's leaf extents expanded to file-system blocks.
TargetIno(img) ==
  LET ks == {k \in 1 .. Len(img.root) :
               img.root[k].name = Target /\ img.root[k].inode >= 2}
  IN img.root[CHOOSE k \in ks : \A j \in ks : k <= j].inode
FileBlocks(inode) ==
  FlattenSeq([i \in 1 .. Len(inode.ext) |->
                [k \in 1 .. inode.ext[i].count |-> inode.ext[i].start + k - 1]])

\* The blocks of a file's first extent, as far as fs_read's buffer holds.
FirstExtentBlocks(inode, g) ==
  LET e == inode.ext[1]
      n == IF e.count * g.bytes_per_block <= FsBufLen THEN e.count
           ELSE FsBufLen \div g.bytes_per_block
  IN [k \in 1 .. n |-> e.start + k - 1]

TypeOK ==
  /\ image \in Images
  /\ fs \in [part_lba : Nat, bytes_per_block : {1024 * 2^k : k \in 0 .. 6},
             sectors_per_block : {2^k : k \in 1 .. 7}, groups_count : Nat \ {0},
             inodes_per_group : Nat \ {0}, bytes_per_inode : {128, 256}]
  /\ fpc \in {"init", "ready", "read", "panic_nogpt", "panic_nopart",
              "panic_magic", "panic_notfound", "assert"}
  /\ sectorList \in Seq([lba : Nat, n : Nat])
  /\ readLen \in Nat

\* ext4_read_inode reads every inode from its own slot: block
\* inode_table + index / inodes_per_block of its group, at offset
\* (index % inodes_per_block) * bytes_per_inode, wherever the payload gets
\* as far as reading it (its group descriptor is in the first block).
InodeLocated ==
  fpc /= "init" =>
    \A j \in DOMAIN image.inodes :
      GroupDescFits(fs, j) => InodeLoc(image, fs, j) = TrueInodeLoc(image, fs, j)

\* fs_read lists the target file: when it returns, its sector list starts
\* with the sectors of the first extent of the inode that the live root
\* dirent named exactly as the path points to, block by block and in
\* order.  This needs the dirent walk (strcmp against names that are
\* prefixes of the path or have it as prefix), the inode location and the
\* extent walk to agree with the disk.
ListStartsAtTarget ==
  fpc = "read" =>
    LET blocks == FirstExtentBlocks(image.inodes[TargetIno(image)], fs)
    IN /\ Len(sectorList) >= Len(blocks)
       /\ \A k \in 1 .. Len(blocks) :
            sectorList[k] = [lba |-> fs.part_lba + blocks[k] * fs.sectors_per_block,
                             n |-> fs.sectors_per_block]
=============================================================================
