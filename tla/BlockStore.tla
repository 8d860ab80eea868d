----------------------------- MODULE BlockStore -----------------------------
(***************************************************************************)
(* What the buffer cache promises to the rest of the kernel: every block   *)
(* has one value, and a process has a block to itself between bread and    *)
(* brelse.                                                                 *)
(***************************************************************************)
CONSTANTS Proc, Block, Val, None

VARIABLES holder, value

Init ==
  /\ holder = [k \in Block |-> None]
  /\ value \in [Block -> {CHOOSE v \in Val : TRUE}]

\* bread returns the block, locked.
Bread(p, k) ==
  /\ holder[k] = None
  /\ holder' = [holder EXCEPT ![k] = p]
  /\ UNCHANGED value

\* The holder changes b->data.
Change(p, k, v) ==
  /\ holder[k] = p
  /\ value' = [value EXCEPT ![k] = v]
  /\ UNCHANGED holder

Brelse(p, k) ==
  /\ holder[k] = p
  /\ holder' = [holder EXCEPT ![k] = None]
  /\ UNCHANGED value

Next == \E p \in Proc, k \in Block :
          Bread(p, k) \/ Brelse(p, k) \/ \E v \in Val : Change(p, k, v)

storeVars == <<holder, value>>

Spec == Init /\ [][Next]_storeVars
=============================================================================
