------------------------------ MODULE AsyncDisk ------------------------------
(***************************************************************************)
(* What virtio_disk_rw promises to the buffer cache: a request on a buffer *)
(* copies its block once, in the direction asked for, at some moment       *)
(* between the call and the return; requests on other buffers do not       *)
(* disturb it and may finish before it.                                    *)
(***************************************************************************)
CONSTANTS Buf, Block, Val, None

VARIABLES
  blockno, data,  \* of a struct buf
  req,            \* of a buffer: no request, one to do, or one that is done
  disk

asyncVars == <<blockno, data, req, disk>>

Idle == [b \in Buf |-> "none"]

\* virtio_disk_rw is called on a buffer, for a block and with contents that its
\* owner has chosen.
Start(b, w) ==
  /\ req[b] = "none"
  /\ req' = [req EXCEPT ![b] = IF w THEN "write" ELSE "read"]
  /\ \E k \in Block \cup {None}, v \in Val :
       /\ blockno' = [blockno EXCEPT ![b] = k]
       /\ data' = [data EXCEPT ![b] = v]
  /\ UNCHANGED disk

\* The device copies the block.
Transfer(b) ==
  /\ req[b] \in {"read", "write"}
  /\ data' = [data EXCEPT ![b] = IF req[b] = "read" THEN disk[blockno[b]] ELSE @]
  /\ disk' = [k \in Block |-> IF req[b] = "write" /\ k = blockno[b] THEN data[b] ELSE disk[k]]
  /\ req' = [req EXCEPT ![b] = "done"]
  /\ UNCHANGED blockno

\* virtio_disk_rw returns.
Finish(b) ==
  /\ req[b] = "done"
  /\ req' = [req EXCEPT ![b] = "none"]
  /\ UNCHANGED <<blockno, data, disk>>

\* The owner of a buffer without a request uses it for itself.
Use(b) ==
  /\ req[b] = "none"
  /\ \E k \in Block \cup {None}, v \in Val :
       /\ blockno' = [blockno EXCEPT ![b] = k]
       /\ data' = [data EXCEPT ![b] = v]
  /\ UNCHANGED <<req, disk>>

Next == \E b \in Buf :
          Transfer(b) \/ Finish(b) \/ Use(b) \/ \E w \in BOOLEAN : Start(b, w)

Init == req = Idle

Spec == Init /\ [][Next]_asyncVars
=============================================================================
