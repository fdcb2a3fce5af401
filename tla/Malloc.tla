------------------------------- MODULE Malloc -------------------------------
(***************************************************************************)
(* The size-classed heap of malloc.c: malloc_init, malloc, free, realloc. *)
(*                                                                         *)
(* The heap is HEAP_SIZE bytes at offset 0.  A chunk at address c is the  *)
(* 48-byte struct malloc_chunk (next, capacity, size, magic and the       *)
(* underflow redzone), `capacity` data bytes and the 16-byte overflow      *)
(* redzone: MALLOC_FRAME_LEN + capacity bytes in all.  Headers are kept as *)
(* records keyed by their address; the redzone bytes are abstracted to    *)
(* whether the caller wrote past `capacity` (check_buffer_overflow then   *)
(* finds the overflow marker gone).  The caller is the environment: it    *)
(* calls malloc, free and realloc on pointers it holds, and `held`       *)
(* records, per chunk it holds, how many bytes it stored.  The contents   *)
(* realloc copies (prev_size bytes) are not modelled.                     *)
(***************************************************************************)
EXTENDS Naturals, Sequences, FiniteSets, FiniteSetsExt, Functions, TLC

CONSTANTS
  HEAP_SIZE,    \* HEAP_SIZE (64 KiB in the code)
  NUM_BINS,     \* NUM_BINS (16)
  Sizes,        \* request sizes the callers use
  MaxOps,       \* bound on the number of calls
  NULL          \* the null pointer

MALLOC_REDZONE_LEN == 16
HDR_LEN == 48                                  \* sizeof(struct malloc_chunk)
MALLOC_FRAME_LEN == HDR_LEN + MALLOC_REDZONE_LEN

ASSUME HEAP_SIZE > MALLOC_FRAME_LEN             \* ASSERT in insert()

VARIABLES
  chunks,   \* address -> [next, capacity, size, magic]
  bins,     \* bins[0 .. NUM_BINS-1]: heads of the free lists
  held,     \* chunk -> bytes its caller stored (the caller's view)
  ops,      \* calls made so far
  hpc       \* "run", or "oom" / "assert" / "overflow" when the payload halted

vars == <<chunks, bins, held, ops, hpc>>

AlignUp(x, a) == ((x + a - 1) \div a) * a

Footprint(c) == MALLOC_FRAME_LEN + chunks[c].capacity

-----------------------------------------------------------------------------
(* The allocator's steps, as operators on a heap state                     *)
(* h = [chunks, bins]; a call returns [h, ret, err].                      *)

\* get_bin_idx_from_size: the first bin 1 << i that holds `size`, else -1
\* (the last, dynamically sized list).
GetBinIdx(size) ==
  IF \E i \in 0 .. NUM_BINS - 2 : size <= 2^i
    THEN Min({i \in 0 .. NUM_BINS - 2 : size <= 2^i})
    ELSE -1

\* Variant: the new chunk placed without the old chunk's overflow redzone.
SplitNoRedzone(h, c, len) ==
  LET ncl == MALLOC_FRAME_LEN + len
      cap == h.chunks[c].capacity
      nc == c + HDR_LEN + cap - ncl
  IN [h EXCEPT !.chunks = [h.chunks EXCEPT ![c].capacity = cap - ncl]
                          @@ (nc :> [next |-> NULL, capacity |-> len,
                                     size |-> 0, magic |-> "FREE"])]

\* split: carve a chunk of capacity len off the end of chunk c.
Split(h, c, len) ==
  LET ncl == MALLOC_FRAME_LEN + len
      cap == h.chunks[c].capacity
      nc == c + HDR_LEN + cap + MALLOC_REDZONE_LEN - ncl
  IN [h EXCEPT !.chunks = [h.chunks EXCEPT ![c].capacity = cap - ncl]
                          @@ (nc :> [next |-> NULL, capacity |-> len,
                                     size |-> 0, magic |-> "FREE"])]

\* The marking every successful malloc ends with.
Allocated(h, a, size) ==
  [h EXCEPT !.chunks[a].magic = "IN_USE", !.chunks[a].size = size,
            !.chunks[a].next = NULL]

Ok(h, a) == [h |-> h, ret |-> a, err |-> "none"]
Fail(h, e) == [h |-> h, ret |-> NULL, err |-> e]

\* Variant: the split test without the new chunk's frame.
RECURSIVE ScanNoFrame(_, _, _, _, _)
ScanNoFrame(h, c, prev, size, bi) ==
  IF c = NULL THEN Fail(h, "oom")
  ELSE IF h.chunks[c].magic /= "FREE" THEN Fail(h, "assert")
  ELSE
    LET cs == IF bi < 0 THEN size ELSE 2^bi
        cap == h.chunks[c].capacity
        unlinked == IF prev /= NULL
                      THEN [h EXCEPT !.chunks[prev].next = h.chunks[c].next]
                      ELSE [h EXCEPT !.bins[NUM_BINS - 1] = h.chunks[c].next]
    IN IF cap > cs
         THEN LET s == Split(h, c, cs)
                  nc == CHOOSE a \in DOMAIN s.chunks : a \notin DOMAIN h.chunks
              IN Ok(Allocated(s, nc, size), nc)
       ELSE IF cap >= cs THEN Ok(Allocated(unlinked, c, size), c)
       ELSE ScanNoFrame(h, h.chunks[c].next, c, size, bi)

\* The scan of the last list for a chunk to split or take whole.
RECURSIVE Scan(_, _, _, _, _)
Scan(h, c, prev, size, bi) ==
  IF c = NULL THEN Fail(h, "oom")
  ELSE IF h.chunks[c].magic /= "FREE" THEN Fail(h, "assert")
  ELSE
    LET cs == IF bi < 0 THEN size ELSE 2^bi
        cap == h.chunks[c].capacity
        unlinked == IF prev /= NULL
                      THEN [h EXCEPT !.chunks[prev].next = h.chunks[c].next]
                      ELSE [h EXCEPT !.bins[NUM_BINS - 1] = h.chunks[c].next]
    IN IF cap > cs + MALLOC_FRAME_LEN
         THEN LET s == Split(h, c, cs)
                  nc == CHOOSE a \in DOMAIN s.chunks : a \notin DOMAIN h.chunks
              IN Ok(Allocated(s, nc, size), nc)
       ELSE IF cap >= cs THEN Ok(Allocated(unlinked, c, size), c)
       ELSE Scan(h, h.chunks[c].next, c, size, bi)

\* Variant: a chunk taken from its bin keeps its `next`.
MallocOpNoClear(h, req) ==
  LET size == AlignUp(IF req = 0 THEN 1 ELSE req, 16)
      bi == GetBinIdx(size)
  IN IF bi /= -1 /\ h.bins[bi] /= NULL
       THEN LET a == h.bins[bi]
            IN IF h.chunks[a].magic /= "FREE" THEN Fail(h, "assert")
               ELSE Ok([h EXCEPT !.bins[bi] = h.chunks[a].next,
                                 !.chunks[a].magic = "IN_USE",
                                 !.chunks[a].size = size], a)
       ELSE Scan(h, h.bins[NUM_BINS - 1], NULL, size, bi)

\* malloc: a zero size is 1, sizes are aligned up to 16; the bin of that
\* size is tried first, then the last list.
MallocOp(h, req) ==
  LET size == AlignUp(IF req = 0 THEN 1 ELSE req, 16)
      bi == GetBinIdx(size)
  IN IF bi /= -1 /\ h.bins[bi] /= NULL
       THEN LET a == h.bins[bi]
            IN IF h.chunks[a].magic /= "FREE" THEN Fail(h, "assert")
               ELSE Ok(Allocated([h EXCEPT !.bins[bi] = h.chunks[a].next],
                                 a, size), a)
       ELSE Scan(h, h.bins[NUM_BINS - 1], NULL, size, bi)

\* get_chunk_from_ptr: ASSERT the magic, then check_buffer_overflow (the
\* overflow marker is gone when the caller stored more than capacity).
ChunkCheck(h, a) ==
  CASE h.chunks[a].magic /= "IN_USE" -> "assert"
    [] held[a] > h.chunks[a].capacity -> "overflow"
    [] OTHER -> "none"

\* free: back to the bin of its capacity (the last list when that is -1),
\* at the head; `next` is linked only when the bin is not empty.
FreeOp(h, a) ==
  LET bi0 == GetBinIdx(h.chunks[a].capacity)
      bi == IF bi0 < 0 THEN NUM_BINS - 1 ELSE bi0
      head == h.bins[bi]
      freed == [h.chunks EXCEPT ![a].magic = "FREE",
                                ![a].next = IF head /= NULL THEN head ELSE @]
  IN [h EXCEPT !.chunks = freed, !.bins[bi] = a]

-----------------------------------------------------------------------------
(* Calls                                                                   *)

Heap == [chunks |-> chunks, bins |-> bins]

Halt(e) == hpc' = e /\ UNCHANGED <<chunks, bins, held>>

\* malloc_init: the whole heap inserted as one free chunk into the last
\* list (empty: the bins are zero-initialised statics).
Init ==
  /\ chunks = (0 :> [next |-> NULL, capacity |-> HEAP_SIZE - MALLOC_FRAME_LEN,
                     size |-> 0, magic |-> "FREE"])
  /\ bins = [i \in 0 .. NUM_BINS - 1 |-> IF i = NUM_BINS - 1 THEN 0 ELSE NULL]
  /\ held = <<>>
  /\ ops = 0
  /\ hpc = "run"

\* p = malloc(n); the caller stores n bytes.  Out of memory is a PANIC.
Malloc(n) ==
  LET r == MallocOp(Heap, n)
  IN /\ hpc = "run" /\ ops < MaxOps
     /\ ops' = ops + 1
     /\ IF r.err /= "none" THEN Halt(r.err)
        ELSE /\ chunks' = r.h.chunks /\ bins' = r.h.bins
             /\ held' = held @@ (r.ret :> n)
             /\ UNCHANGED hpc

\* free(p) of a pointer the caller holds.
Free(a) ==
  LET e == ChunkCheck(Heap, a)
      h == FreeOp(Heap, a)
  IN /\ hpc = "run" /\ ops < MaxOps
     /\ ops' = ops + 1
     /\ IF e /= "none" THEN Halt(e)
        ELSE /\ chunks' = h.chunks /\ bins' = h.bins
             /\ held' = RestrictDomain(held, LAMBDA x : x /= a)
             /\ UNCHANGED hpc

\* q = realloc(p, n); the caller then stores n bytes.  Within capacity
\* the chunk is kept (its recorded size is not updated); otherwise a new
\* chunk is malloc'ed, prev_size bytes are copied into it and p is freed.
Realloc(a, n) ==
  LET e == ChunkCheck(Heap, a)
      r == MallocOp(Heap, n)
  IN /\ hpc = "run" /\ ops < MaxOps
     /\ ops' = ops + 1
     /\ CASE e /= "none" -> Halt(e)
          [] n <= chunks[a].capacity ->
               /\ held' = [held EXCEPT ![a] = n]
               /\ UNCHANGED <<chunks, bins, hpc>>
          [] r.err /= "none" -> Halt(r.err)
          [] OTHER ->
               LET h == FreeOp(r.h, a)
               IN /\ chunks' = h.chunks /\ bins' = h.bins
                  /\ held' = RestrictDomain(held, LAMBDA x : x /= a)
                               @@ (r.ret :> n)
                  /\ UNCHANGED hpc

\* The payload has halted, or the callers have made their calls.
Done == (hpc /= "run" \/ ops = MaxOps) /\ UNCHANGED vars

Next ==
  \/ \E n \in Sizes : Malloc(n)
  \/ \E a \in DOMAIN held : Free(a)
  \/ \E a \in DOMAIN held, n \in Sizes : Realloc(a, n)
  \/ Done

Spec == Init /\ [][Next]_vars

-----------------------------------------------------------------------------
(* Properties.                                                             *)

\* The chunks of a list, following `next` from c (at most every chunk).
RECURSIVE ListFrom(_, _)
ListFrom(c, fuel) ==
  IF c = NULL \/ fuel = 0 THEN <<>>
  ELSE <<c>> \o ListFrom(chunks[c].next, fuel - 1)

BinList(i) == ListFrom(bins[i], Cardinality(DOMAIN chunks) + 1)

TypeOK ==
  /\ DOMAIN chunks \subseteq 0 .. HEAP_SIZE - 1
  /\ \A c \in DOMAIN chunks :
       chunks[c] \in [next : DOMAIN chunks \cup {NULL}, capacity : Nat,
                      size : Nat, magic : {"FREE", "IN_USE"}]
  /\ bins \in [0 .. NUM_BINS - 1 -> DOMAIN chunks \cup {NULL}]
  /\ DOMAIN held \subseteq DOMAIN chunks
  /\ ops \in 0 .. MaxOps
  /\ hpc \in {"run", "oom", "assert", "overflow"}

\* split and insert keep the heap tiled: walking from the heap start by
\* MALLOC_FRAME_LEN + capacity visits every chunk once and ends exactly at
\* the end of the heap, so no chunk (redzones included) overlaps another
\* or lies outside the heap.
HeapTiled ==
  /\ 0 \in DOMAIN chunks
  /\ \A c \in DOMAIN chunks :
       c + Footprint(c) = HEAP_SIZE \/ c + Footprint(c) \in DOMAIN chunks
  /\ MapThenSumSet(Footprint, DOMAIN chunks) = HEAP_SIZE

\* The free lists malloc and free maintain: every free chunk is on
\* exactly one list, once, and no chunk in use is on any; the chunks in
\* use are exactly those the callers hold.
FreeListsExact ==
  /\ \A c \in DOMAIN chunks :
       MapThenSumSet(LAMBDA i : Cardinality({k \in 1 .. Len(BinList(i)) :
                                               BinList(i)[k] = c}),
                     0 .. NUM_BINS - 1)
       = IF chunks[c].magic = "FREE" THEN 1 ELSE 0
  /\ hpc = "run" => DOMAIN held = {c \in DOMAIN chunks : chunks[c].magic = "IN_USE"}

\* malloc hands out a chunk whose capacity holds what was asked for: no
\* caller that stores the bytes it requested writes past its chunk.
AllocatedFits ==
  \A a \in DOMAIN held : held[a] <= chunks[a].capacity
=============================================================================
