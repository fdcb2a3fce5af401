---------------------------- MODULE BlockDevice ----------------------------
(***************************************************************************)
(* What the block driver promises its callers (disk.h): a caller issues   *)
(* one disk_read_sectors or disk_write_sectors at a time; the request is  *)
(* performed on the disk exactly once, atomically, and only then does the *)
(* call return.  A device error ends the payload (the call never returns). *)
(***************************************************************************)
EXTENDS Naturals

CONSTANTS
  Lbas,          \* sector addresses the callers use
  Vals,          \* contents a sector (or the caller's buffer) can hold
  S_OK, S_IOERR, S_UNSUPP   \* completion statuses of virtio_blk.h

VARIABLES
  disk,     \* sector contents
  buf,      \* the caller's data buffer
  req,      \* the request being served: [type, lba]
  state     \* "idle", "pending", "completed" or "failed"

vars == <<disk, buf, req, state>>

ReqTypes == {"IN", "OUT"}

Init ==
  /\ disk \in [Lbas -> Vals]
  /\ buf \in Vals
  /\ req \in [type : ReqTypes, lba : Lbas]
  /\ state = "idle"

\* A caller hands over a read (into buf) or a write (of v from buf).
Submit(t, l, v) ==
  /\ state = "idle"
  /\ state' = "pending"
  /\ req' = [type |-> t, lba |-> l]
  /\ buf' = IF t = "OUT" THEN v ELSE buf
  /\ UNCHANGED disk

\* The request takes effect on the disk, or fails, as one step.
Perform(st) ==
  /\ state = "pending"
  /\ IF st = S_OK
       THEN /\ disk' = IF req.type = "OUT" THEN [disk EXCEPT ![req.lba] = buf]
                                           ELSE disk
            /\ buf' = IF req.type = "IN" THEN disk[req.lba] ELSE buf
            /\ state' = "completed"
       ELSE /\ state' = "failed"
            /\ UNCHANGED <<disk, buf>>
  /\ UNCHANGED req

\* The call returns to its caller.
Return ==
  /\ state = "completed"
  /\ state' = "idle"
  /\ UNCHANGED <<disk, buf, req>>

Next ==
  \/ \E t \in ReqTypes, l \in Lbas, v \in Vals : Submit(t, l, v)
  \/ \E st \in {S_OK, S_IOERR, S_UNSUPP} : Perform(st)
  \/ Return

Spec == Init /\ [][Next]_vars
=============================================================================
