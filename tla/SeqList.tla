------------------------------- MODULE SeqList -------------------------------
(***************************************************************************)
(* What list.h promises its users: a list is a sequence of distinct      *)
(* elements; push_back appends, pop_front removes the first element,     *)
(* remove takes an element out wherever it is (nothing when it is in no  *)
(* list).  Pushing an element already in the list is refused (the        *)
(* DEBUG_ASSERT), after which nothing more happens.                      *)
(***************************************************************************)
EXTENDS Sequences, SequencesExt

CONSTANT Elems

VARIABLES seq, halted

ListPushBack(e) ==
  /\ ~halted
  /\ IF e \in ToSet(seq) THEN halted' = TRUE /\ UNCHANGED seq
     ELSE seq' = Append(seq, e) /\ UNCHANGED halted

ListPopFront ==
  /\ ~halted
  /\ seq' = IF seq = <<>> THEN seq ELSE Tail(seq)
  /\ UNCHANGED halted

ListRemove(e) ==
  /\ ~halted
  /\ seq' = SelectSeq(seq, LAMBDA x : x /= e)
  /\ UNCHANGED halted

Init == seq = <<>> /\ halted = FALSE

Next ==
  \/ \E e \in Elems : ListPushBack(e) \/ ListRemove(e)
  \/ ListPopFront

Spec == Init /\ [][Next]_<<seq, halted>>
=============================================================================
