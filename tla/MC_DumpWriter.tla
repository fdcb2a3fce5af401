--------------------------- MODULE MC_DumpWriter ---------------------------
(* Sector lists as ext4_read_block builds them (one entry per file-system *)
(* block of 512, 1024 or 4096 bytes, 1..3 blocks), and dump lengths at    *)
(* and around the sector and block boundaries.                            *)
EXTENDS DumpWriter

MCSectorLists ==
  { [i \in 1 .. k |-> [lba |-> 100 + 16 * i, n |-> spb]] :
      k \in 1 .. 3, spb \in {1, 2, 8} }

MCDumpLens == {0, 28, 512, 700, 1024, 1500, 2048, 3000, 4096, 8192, 9000, 12288}
=============================================================================
