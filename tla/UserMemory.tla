----------------------------- MODULE UserMemory -----------------------------
(***************************************************************************)
(* What the kernel promises of user memory: every process has its own      *)
(* sequence of pages, of which a new one is zero; fork copies all of them, *)
(* exec replaces all of them, and a call that fails changes none.          *)
(***************************************************************************)
EXTENDS Integers, Sequences

CONSTANTS Proc, Val, MaxPages, Images, ImageMemory(_), None

VARIABLE mem  \* the pages of each process, None where there is no process

Grow(p, n) == mem' = [mem EXCEPT ![p] = @ \o [v \in 1..n |-> 0]]
Shrink(p, n) == mem' = [mem EXCEPT ![p] = SubSeq(@, 1, Len(@) - n)]
Store(p, v, x) == mem' = [mem EXCEPT ![p][v] = x]
Fork(p, q) == mem[q] = None /\ mem' = [mem EXCEPT ![q] = mem[p]]
Exec(p, image) == mem' = [mem EXCEPT ![p] = ImageMemory(image)]
Free(p) == mem' = [mem EXCEPT ![p] = None]

Init == \E p \in Proc : mem = [q \in Proc |-> IF q = p THEN << >> ELSE None]

Next ==
  \E p \in Proc :
    /\ mem[p] # None
    /\ \/ \E n \in 0..Len(mem[p]) : Shrink(p, n)
       \/ \E n \in 1..(MaxPages - Len(mem[p])) : Grow(p, n)
       \/ \E v \in 1..Len(mem[p]), x \in Val : Store(p, v, x)
       \/ \E q \in Proc : Fork(p, q)
       \/ \E image \in Images : Exec(p, image)
       \/ Free(p)

userVars == mem

Spec == Init /\ [][Next]_userVars
=============================================================================
