---------------------------- MODULE MC_Boot2Dump ----------------------------
(* Model-checking instance of Boot2Dump: the images of Ext4Images and the *)
(* dump sizes of spec scenarios 1-4 and test_main (28 bytes).             *)
EXTENDS Boot2Dump, Ext4Images

MCDumpLens == {28, 4096, 30000, 32768}
\* A dump larger than main()'s 64 KiB staging buffer.
MCLargeDumps == {70000}
=============================================================================
