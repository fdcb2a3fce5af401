-------------------------- MODULE MC_IntrusiveList --------------------------
EXTENDS IntrusiveList
CONSTANTS e1, e2, e3, e4
MCElems == {e1, e2, e3, e4}
=============================================================================
