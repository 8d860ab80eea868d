----------------------------- MODULE AtomicDisk -----------------------------
(***************************************************************************)
(* What the logging layer promises the file system: operations change a    *)
(* store in memory; from time to time, and only when no operation is in    *)
(* progress, the whole store becomes durable at once; a crash brings back  *)
(* the last durable store.  So an operation survives a crash completely or *)
(* not at all.                                                             *)
(***************************************************************************)
CONSTANTS Proc, Block, Val

VARIABLES
  mem,       \* what the file system reads
  durable,   \* what a crash leaves
  active     \* processes inside an operation

vars == <<mem, durable, active>>

Init ==
  /\ mem \in [Block -> Val]
  /\ durable = mem
  /\ active = {}

Begin(p) ==
  /\ p \notin active
  /\ active' = active \cup {p}
  /\ UNCHANGED <<mem, durable>>

Write(p, b, v) ==
  /\ p \in active
  /\ mem' = [mem EXCEPT ![b] = v]
  /\ UNCHANGED <<durable, active>>

End(p) ==
  /\ p \in active
  /\ active' = active \ {p}
  /\ UNCHANGED <<mem, durable>>

Commit ==
  /\ active = {}
  /\ durable' = mem
  /\ UNCHANGED <<mem, active>>

Crash ==
  /\ mem' = durable
  /\ active' = {}
  /\ UNCHANGED durable

Next ==
  \/ \E p \in Proc : Begin(p) \/ End(p) \/ \E b \in Block, v \in Val : Write(p, b, v)
  \/ Commit
  \/ Crash

Spec == Init /\ [][Next]_vars

=============================================================================
