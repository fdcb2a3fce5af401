------------------------------ MODULE MC_Malloc ------------------------------
EXTENDS Malloc
=============================================================================
