------------------------------- MODULE Umalloc -------------------------------
(***************************************************************************)
(* The user-level allocator, user/umalloc.c: a circular list of free       *)
(* blocks in the order of their addresses, first fit from freep, and       *)
(* memory from sbrk.  Addresses and sizes are in units of a header.  base  *)
(* is in the data segment, below the heap.  The program may call sbrk too, *)
(* so that the heap has holes.                                             *)
(***************************************************************************)
EXTENDS Integers, FiniteSets

CONSTANTS
  HDR,       \* bytes of a header
  NALLOC,    \* units that morecore asks for at least, 4096
  TOP,       \* the heap cannot grow to this address
  INTUNITS,  \* units of which an int cannot hold the bytes any more, 2^27
  MaxBytes,  \* bound on the argument of malloc: fewer than INTUNITS units
  Null

base == 0
Addr == 0..(TOP - 1)

VARIABLES
  ptr, size,  \* the header at each address
  freep,
  brk,        \* end of the process's memory
  used,       \* what malloc was asked for, by address of the block
  holes       \* memory that sbrk gave to the program

umallocVars == <<ptr, size, freep, brk, used, holes>>

Init ==
  /\ ptr = [a \in Addr |-> Null] /\ size = [a \in Addr |-> 0]
  /\ freep = Null
  /\ brk = 2
  /\ used = [a \in Addr |-> Null]
  /\ holes = {}

\* The allocator's own memory as a record, for calls inside a call.
Heap == [ptr |-> ptr, size |-> size, freep |-> freep, brk |-> brk]

\* The blocks of the free list, from p on.
RECURSIVE Listed(_, _)
Listed(m, p) == {p} \cup (IF m.ptr[p] = base THEN {} ELSE Listed(m, m.ptr[p]))

\* Headers that are no longer in use hold nothing of interest.
Become(m) ==
  LET free == IF m.freep = Null THEN {} ELSE Listed(m, base) IN
    /\ ptr' = [a \in Addr |-> IF a \in free THEN m.ptr[a] ELSE Null]
    /\ size' = [a \in Addr |-> IF a \in free \/ used'[a] # Null THEN m.size[a] ELSE 0]
    /\ freep' = m.freep /\ brk' = m.brk

-----------------------------------------------------------------------------

\* The block after which free enters b.
RECURSIVE Before(_, _, _)
Before(m, b, p) ==
  LET n == m.ptr[p] IN
    IF (b > p /\ b < n) \/ (p >= n /\ (b > p \/ b < n)) THEN p ELSE Before(m, b, n)

\* free joins b with the next free block, or links it.
JoinNext(m, b, p) ==
  LET n == m.ptr[p] IN
    IF b + m.size[b] = n
    THEN [m EXCEPT !.size[b] = @ + m.size[n], !.ptr[b] = m.ptr[n]]
    ELSE [m EXCEPT !.ptr[b] = n]

\* and the block before with b, or links it.
JoinPrev(m, b, p) ==
  IF p + m.size[p] = b
  THEN [m EXCEPT !.size[p] = @ + m.size[b], !.ptr[p] = m.ptr[b]]
  ELSE [m EXCEPT !.ptr[p] = b]

FreeBlock(m, b) ==
  LET p == Before(m, b, m.freep)
  IN  [JoinPrev(JoinNext(m, b, p), b, p) EXCEPT !.freep = p]

\* What morecore asks for.  The argument of sbrk is an int: from INTUNITS on it is
\* negative or zero, and growproc succeeds without the memory.  MaxBytes keeps such
\* requests out of the model.
Asked(nu) == IF nu < NALLOC THEN NALLOC ELSE nu
SbrkArg(nu) == ((Asked(nu) + INTUNITS) % (2 * INTUNITS)) - INTUNITS

\* growproc has no room.
SbrkFails(m, n) == n > 0 /\ m.brk + n >= TOP

\* morecore, when sbrk succeeds: free what it gave.
Morecore(m, nu) ==
  FreeBlock([m EXCEPT !.size[m.brk] = Asked(nu), !.brk = @ + SbrkArg(nu)], m.brk)

Nunits(nbytes) == (nbytes + HDR - 1) \div HDR + 1

\* Faulty: the front of the block is given away.
CutFront(m, prevp, p, n) == [m |-> [m EXCEPT !.size[p] = n, !.freep = prevp], b |-> p]

\* malloc takes the end of a larger block.
Cut(m, prevp, p, n) ==
  [m |-> [m EXCEPT !.size[p] = @ - n, !.size[p + m.size[p] - n] = n, !.freep = prevp],
   b |-> p + m.size[p] - n]

\* The search of malloc has seen every block.
AllSeen(m, p) == p = m.freep

\* The loop of malloc: the memory afterwards, and the block or Null.
RECURSIVE Search(_, _, _, _)
Search(m, prevp, p, n) ==
  IF m.size[p] = n THEN [m |-> [m EXCEPT !.ptr[prevp] = m.ptr[p], !.freep = prevp], b |-> p]
  ELSE IF m.size[p] > n THEN Cut(m, prevp, p, n)
  ELSE IF ~AllSeen(m, p) THEN Search(m, p, m.ptr[p], n)
  ELSE IF SbrkFails(m, SbrkArg(n)) THEN [m |-> m, b |-> Null]
  ELSE LET more == Morecore(m, n) IN Search(more, more.freep, more.ptr[more.freep], n)

Malloc(nbytes) ==
  LET m == IF freep = Null THEN [Heap EXCEPT !.freep = base, !.ptr[base] = base] ELSE Heap
      r == Search(m, m.freep, m.ptr[m.freep], Nunits(nbytes))
  IN  /\ used' = IF r.b = Null THEN used ELSE [used EXCEPT ![r.b] = nbytes]
      /\ Become(r.m)
      /\ UNCHANGED holes

Free(b) ==
  /\ used[b] # Null
  /\ used' = [used EXCEPT ![b] = Null]
  /\ Become(FreeBlock(Heap, b))
  /\ UNCHANGED holes

\* The program calls sbrk for itself.
Sbrk ==
  /\ ~SbrkFails(Heap, 1)
  /\ brk' = brk + 1
  /\ holes' = holes \cup {brk}
  /\ UNCHANGED <<ptr, size, freep, used>>

Next ==
  \/ \E n \in 0..MaxBytes : Malloc(n)
  \/ \E b \in Addr : Free(b)
  \/ Sbrk

Spec == Init /\ [][Next]_umallocVars

-----------------------------------------------------------------------------

\* The free list, from base on.
FreeBlocks == {a \in Addr : ptr[a] # Null}
Units(a) == a..(a + size[a] - 1)
UsedBlocks == {a \in Addr : used[a] # Null}

\* Every unit that came from sbrk is in one block, free or given to one caller,
\* and a block has room for its header and for what was asked for.
HeapPartitioned ==
  LET blocks == (FreeBlocks \ {base}) \cup UsedBlocks IN
    /\ UNION {Units(a) : a \in blocks} = (2..(brk - 1)) \ holes
    /\ \A a, b \in blocks : a # b => Units(a) \cap Units(b) = {}
    /\ \A b \in UsedBlocks : used[b] <= (size[b] - 1) * HDR

\* free leaves the list circular and in the order of addresses, so that each
\* search of it ends; neighbours are joined.
FreeListInOrder ==
  freep # Null =>
    /\ freep \in FreeBlocks
    /\ \A a \in FreeBlocks :
         LET later == {b \in FreeBlocks : b > a} IN
           /\ ptr[a] = IF later = {} THEN base ELSE CHOOSE b \in later : \A c \in later : b <= c
           /\ a # base => a + size[a] \notin FreeBlocks

\* The heap is sound: its blocks partition it, and the free ones are listed in
\* order.
HeapSound == HeapPartitioned /\ FreeListInOrder
=============================================================================
