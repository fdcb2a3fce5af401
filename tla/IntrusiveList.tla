---------------------------- MODULE IntrusiveList ----------------------------
(***************************************************************************)
(* The intrusive doubly linked list of list.h: a list_t head L and        *)
(* elements that embed a list_elem_t, each with prev and next pointers.   *)
(* The callers (ext4_read_block appends each block's sector_list_entry,   *)
(* disk_write_to_sector_list walks the list) are the environment: any     *)
(* element may be pushed, popped or removed in any order.                 *)
(***************************************************************************)
EXTENDS Naturals, Sequences, SequencesExt

CONSTANTS
  Elems,   \* the list_elem_t's (embedded in sector_list_entry's)
  L,       \* the list_t head
  NULL

Cells == Elems \cup {L}

VARIABLES
  prev, next,   \* the pointers of every cell: Cells -> Cells \cup {NULL}
  halted        \* a DEBUG_ASSERT fired

vars == <<prev, next, halted>>

-----------------------------------------------------------------------------
(* Readers.                                                                *)

\* The elements met following next from L until L comes round again (at
\* most one lap of every cell).
RECURSIVE Walk(_, _)
Walk(c, fuel) ==
  IF c = L \/ c = NULL \/ fuel = 0 THEN <<>>
  ELSE <<c>> \o Walk(next[c], fuel - 1)

ListSeq == Walk(next[L], Cardinality(Cells))

\* list_is_empty, list_len and list_contains: loops over next from L.
ListIsEmpty == next[L] = L
ListLen == Len(ListSeq)
ListContains(e) == e \in ToSet(ListSeq)

-----------------------------------------------------------------------------
(* Writers.                                                                *)

\* Variant: the back link n->prev = new left out.
InsertNoBackLink(p, n, new) ==
  /\ prev' = [prev EXCEPT ![new] = p]
  /\ next' = [next EXCEPT ![new] = n, ![p] = new]

\* list_insert(prev, next, new): link new between p and n.
Insert(p, n, new) ==
  /\ prev' = [prev EXCEPT ![new] = p, ![n] = new]
  /\ next' = [next EXCEPT ![new] = n, ![p] = new]

\* Variant: the new element linked in after the head instead of before it.
ListPushBackAtHead(e) ==
  /\ ~halted
  /\ IF ListContains(e) THEN halted' = TRUE /\ UNCHANGED <<prev, next>>
     ELSE Insert(L, next[L], e) /\ UNCHANGED halted

\* list_push_back: DEBUG_ASSERT(!list_contains), then insert between
\* list->prev and list.
ListPushBack(e) ==
  /\ ~halted
  /\ IF ListContains(e) THEN halted' = TRUE /\ UNCHANGED <<prev, next>>
     ELSE Insert(prev[L], L, e) /\ UNCHANGED halted

\* Variant: the empty-list check dropped.
ListPopFrontUnchecked ==
  LET h == next[L]
  IN /\ ~halted
     /\ next' = [next EXCEPT ![L] = next[h], ![h] = NULL]
     /\ prev' = [prev EXCEPT ![next[h]] = L, ![h] = NULL]
     /\ UNCHANGED halted

\* list_pop_front: unlink the first element and nullify it.
ListPopFront ==
  LET h == next[L]
  IN /\ ~halted
     /\ h /= L
     /\ next' = [next EXCEPT ![L] = next[h], ![h] = NULL]
     /\ prev' = [prev EXCEPT ![next[h]] = L, ![h] = NULL]
     /\ UNCHANGED halted

\* list_remove: nothing for an element with a null next; otherwise unlink
\* it from its neighbours and nullify it.
ListRemove(e) ==
  /\ ~halted
  /\ next[e] /= NULL
  /\ next' = [next EXCEPT ![prev[e]] = next[e], ![e] = NULL]
  /\ prev' = [[prev EXCEPT ![next[e]] = prev[e]] EXCEPT ![e] = NULL]
  /\ UNCHANGED halted

\* An element that is in no list: list_remove returns at once.
ListRemoveNull(e) == ~halted /\ next[e] = NULL /\ UNCHANGED vars

\* list_init(L); elements start nullified (never linked).
Init ==
  /\ prev = [c \in Cells |-> IF c = L THEN L ELSE NULL]
  /\ next = [c \in Cells |-> IF c = L THEN L ELSE NULL]
  /\ halted = FALSE

Stop == halted /\ UNCHANGED vars

Next ==
  \/ \E e \in Elems : ListPushBack(e) \/ ListRemove(e) \/ ListRemoveNull(e)
  \/ ListPopFront
  \/ Stop

Spec == Init /\ [][Next]_vars

-----------------------------------------------------------------------------
(* Properties.                                                             *)

TypeOK ==
  /\ prev \in [Cells -> Cells \cup {NULL}]
  /\ next \in [Cells -> Cells \cup {NULL}]
  /\ prev[L] /= NULL /\ next[L] /= NULL
  /\ halted \in BOOLEAN

\* The pointers form one ring through L: prev undoes next everywhere,
\* and one lap from L meets every linked element exactly once (so
\* LIST_FOR_EACH in disk_write_to_sector_list visits each entry once and
\* ends).  An unlinked element has both pointers null.
DoublyLinked ==
  /\ \A c \in Cells : next[c] /= NULL => prev[next[c]] = c
  /\ \A c \in Cells : prev[c] /= NULL => next[prev[c]] = c
  /\ ToSet(ListSeq) = {e \in Elems : next[e] /= NULL}
  /\ Len(ListSeq) = Cardinality(ToSet(ListSeq))
  /\ \A e \in Elems : (next[e] = NULL) = (prev[e] = NULL)

\* The list implements the sequence of SeqList: push_back appends,
\* pop_front takes the head, remove takes the element out; the sequence
\* is what a walk from the head reads (LIST_FOR_EACH's order).
SL == INSTANCE SeqList WITH seq <- ListSeq

ImplementsSeqList == SL!Spec
=============================================================================
