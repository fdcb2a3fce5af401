------------------------------ MODULE MC_Ext4 ------------------------------
(* Model-checking instance of Ext4 over the images of Ext4Images.         *)
EXTENDS Ext4, Ext4Images
=============================================================================
